---- MODULE Spec2Model ----
(***************************************************************************)
(* A model of the OpenAPI/Swagger specification normalizer                 *)
(* (docs-to-app/backend/services/openapi_parser.py, class OpenAPIParser).  *)
(*                                                                         *)
(* Representation of the decoded documents (JSON-like values):             *)
(*   - a string is a sequence of atoms (TLA+ strings); concatenation is \o *)
(*     and the empty string is << >>.  Strings whose characters matter     *)
(*     (dialect strings, method keys) are sequences of one-character atoms.*)
(*   - an optional dictionary field is a sequence of length 0 (key absent) *)
(*     or 1 (key present, with that value); dict.get(k, d) is Get(f, d).   *)
(*   - a dictionary whose keys are data (paths, responses, content, ...)   *)
(*     is a sequence of entries [k |-> key, v |-> value] in declaration    *)
(*     order, keys distinct.                                               *)
(*   - None is << >> where the code yields None for an absent value.       *)
(***************************************************************************)
EXTENDS Naturals, Sequences, FiniteSets, TLC

(***************************************************************************)
(* Generic helpers: dictionaries, Python truthiness, str methods.          *)
(***************************************************************************)
None == << >>

Some(x) == << x >>

\* dict.get(key, default) on an optional field
Get(f, d) == IF f = << >> THEN d ELSE f[1]

\* key in mapping
HasKey(m, key) == \E i \in DOMAIN m : m[i].k = key

\* mapping[key]
Lookup(m, key) == m[CHOOSE i \in DOMAIN m : m[i].k = key].v

\* mapping.get(key, default)
MapGet(m, key, d) == IF HasKey(m, key) THEN Lookup(m, key) ELSE d

\* mapping.get(key): None when the key is absent
MapGetOpt(m, key) == IF HasKey(m, key) THEN Some(Lookup(m, key)) ELSE None

\* JSON scalars and containers carried as example/default values:
\* [t |-> "num" | "bool" | "str" | "map", v |-> its text].  Python truthiness.
Truthy(x) ==
    CASE x.t = "num"  -> x.v # "0"
      [] x.t = "bool" -> x.v = "true"
      [] x.t = "str"  -> x.v # ""
      [] x.t = "map"  -> x.v # "{}"
      [] OTHER        -> FALSE

\* Python `a or b` on two optional values (None is falsy)
PyOr(a, b) == IF a # None /\ Truthy(a[1]) THEN a ELSE b

UpperChar(c) ==
    CASE c = "a" -> "A" [] c = "c" -> "C" [] c = "d" -> "D" [] c = "e" -> "E"
      [] c = "g" -> "G" [] c = "h" -> "H" [] c = "i" -> "I" [] c = "l" -> "L"
      [] c = "m" -> "M" [] c = "n" -> "N" [] c = "o" -> "O" [] c = "p" -> "P"
      [] c = "r" -> "R" [] c = "s" -> "S" [] c = "t" -> "T" [] c = "u" -> "U"
      [] OTHER -> c

LowerChar(c) ==
    CASE c = "A" -> "a" [] c = "C" -> "c" [] c = "D" -> "d" [] c = "E" -> "e"
      [] c = "G" -> "g" [] c = "H" -> "h" [] c = "I" -> "i" [] c = "L" -> "l"
      [] c = "M" -> "m" [] c = "N" -> "n" [] c = "O" -> "o" [] c = "P" -> "p"
      [] c = "R" -> "r" [] c = "S" -> "s" [] c = "T" -> "t" [] c = "U" -> "u"
      [] OTHER -> c

\* str.upper() / str.lower() on a string of one-character atoms
Upper(s) == [i \in 1..Len(s) |-> UpperChar(s[i])]

Lower(s) == [i \in 1..Len(s) |-> LowerChar(s[i])]

RECURSIVE Flatten(_)
\* concatenation of a sequence of sequences (a list built by nested loops)
Flatten(ss) == IF ss = << >> THEN << >> ELSE Head(ss) \o Flatten(Tail(ss))

\* list[:n]
Take(s, n) == SubSeq(s, 1, IF Len(s) < n THEN Len(s) ELSE n)

(***************************************************************************)
(* Empty dictionaries ({}), as the records the model uses for each shape.  *)
(***************************************************************************)
EmptySchema == [type |-> None, format |-> None, default |-> None, example |-> None]

EmptyMedia == [schema |-> None, example |-> None]

EmptyInfo ==
    [title |-> None, version |-> None, description |-> None,
     contact |-> None, license |-> None, termsOfService |-> None]

EmptyComponents == [securitySchemes |-> None, schemas |-> None]

EmptyServer == [url |-> None, description |-> None]

EmptyRequestBody == [required |-> None, description |-> None, content |-> None]

EmptyOperation ==
    [summary |-> None, description |-> None, operationId |-> None, tags |-> None,
     parameters |-> None, requestBody |-> None, responses |-> None,
     security |-> None, deprecated |-> None]

(***************************************************************************)
(* OpenAPIParser: the extraction functions.  self.spec and self.version    *)
(* are passed as the parameters spec and version.                          *)
(***************************************************************************)

\* self.version.startswith('3'), for a str
StartsWith3(version) == Len(version.v) > 0 /\ version.v[1] = "3"

\* str.startswith exists only on a str: a number raises AttributeError
IsStr(version) == version.t = "str"

\* 'openapi' in spec / 'swagger' in spec
HasDialectKey(spec) == spec.openapi # None \/ spec.swagger # None

\* the value parse_spec stores in self.version
DetectVersion(spec) == IF spec.openapi # None THEN spec.openapi[1] ELSE spec.swagger[1]

_extract_info(spec) ==
    LET info == Get(spec.info, EmptyInfo)
    IN  [title            |-> Get(info.title, <<"API Documentation">>),
         version          |-> Get(info.version, <<"1.0.0">>),
         description      |-> Get(info.description, << >>),
         contact          |-> Get(info.contact, << >>),
         license          |-> Get(info.license, << >>),
         terms_of_service |-> Get(info.termsOfService, << >>)]

Servers3(spec) ==
    LET servers == Get(spec.servers, << >>)
    IN  [i \in 1..Len(servers) |->
            [url         |-> Get(servers[i].url, << >>),
             description |-> Get(servers[i].description, << >>)]]

\* a variant of Servers2 with a placeholder for an absent host
Servers2_DefaultHost(spec) ==
    LET host      == Get(spec.host, <<"localhost">>)
        base_path == Get(spec.basePath, << >>)
        schemes   == Get(spec.schemes, << <<"https">> >>)
    IN  [i \in 1..Len(schemes) |->
            [url         |-> schemes[i] \o <<"://">> \o host \o base_path,
             description |-> <<"API Server">>]]

Servers2(spec) ==
    LET host      == Get(spec.host, << >>)
        base_path == Get(spec.basePath, << >>)
        schemes   == Get(spec.schemes, << <<"https">> >>)
    IN  [i \in 1..Len(schemes) |->
            [url         |-> schemes[i] \o <<"://">> \o host \o base_path,
             description |-> <<"API Server">>]]

_extract_servers(spec, version) ==
    IF StartsWith3(version) THEN Servers3(spec) ELSE Servers2(spec)

Auth3(spec) ==
    LET components       == Get(spec.components, EmptyComponents)
        security_schemes == Get(components.securitySchemes, << >>)
    IN  [i \in 1..Len(security_schemes) |->
            LET name   == security_schemes[i].k
                scheme == security_schemes[i].v
            IN  [name          |-> name,
                 type          |-> scheme.type,
                 description   |-> Get(scheme.description, << >>),
                 in            |-> scheme.in,
                 scheme        |-> scheme.scheme,
                 bearer_format |-> scheme.bearerFormat,
                 flows         |-> scheme.flows]]

Auth2(spec) ==
    LET security_defs == Get(spec.securityDefinitions, << >>)
    IN  [i \in 1..Len(security_defs) |->
            LET name   == security_defs[i].k
                scheme == security_defs[i].v
            IN  [name        |-> name,
                 type        |-> scheme.type,
                 description |-> Get(scheme.description, << >>),
                 in          |-> scheme.in,
                 flow        |-> scheme.flow]]

\* a variant of _extract_auth that tells the dialect from the shape of the document
_extract_auth_ByShape(spec, version) ==
    IF spec.components # None THEN Auth3(spec) ELSE Auth2(spec)

_extract_auth(spec, version) ==
    IF StartsWith3(version) THEN Auth3(spec) ELSE Auth2(spec)

Param3(param) ==
    LET schema == Get(param.schema, EmptySchema)
    IN  [name        |-> param.name,
         in          |-> param.in,
         description |-> Get(param.description, << >>),
         required    |-> Get(param.required, FALSE),
         type        |-> schema.type,
         format      |-> schema.format,
         default     |-> schema.default,
         example     |-> PyOr(param.example, schema.example)]

Param2(param) ==
    [name        |-> param.name,
     in          |-> param.in,
     description |-> Get(param.description, << >>),
     required    |-> Get(param.required, FALSE),
     type        |-> param.type,
     format      |-> param.format,
     default     |-> param.default]

_parse_parameters(params, version) ==
    [i \in 1..Len(params) |->
        IF StartsWith3(version) THEN Param3(params[i]) ELSE Param2(params[i])]

\* `not request_body`: None, or a dictionary without any key
NotRequestBody(request_body) ==
    request_body = None \/ request_body[1] = EmptyRequestBody

\* a variant of _parse_request_body that keeps the last content type
_parse_request_body_LastContentType(request_body) ==
    IF NotRequestBody(request_body) THEN None
    ELSE LET rb      == request_body[1]
             content == Get(rb.content, << >>)
         IN  IF content = << >> THEN None
             ELSE LET content_type == content[Len(content)].k
                      media_type   == content[Len(content)].v
                      schema       == Get(media_type.schema, EmptySchema)
                  IN  Some([content_type |-> content_type,
                            required     |-> Get(rb.required, FALSE),
                            description  |-> Get(rb.description, << >>),
                            schema       |-> schema,
                            example      |-> PyOr(media_type.example, schema.example)])

_parse_request_body(request_body) ==
    IF NotRequestBody(request_body) THEN None
    ELSE LET rb      == request_body[1]
             content == Get(rb.content, << >>)
         IN  IF content = << >> THEN None
             ELSE LET content_type == content[1].k
                      media_type   == content[1].v
                      schema       == Get(media_type.schema, EmptySchema)
                  IN  Some([content_type |-> content_type,
                            required     |-> Get(rb.required, FALSE),
                            description  |-> Get(rb.description, << >>),
                            schema       |-> schema,
                            example      |-> PyOr(media_type.example, schema.example)])

Response3(response) ==
    LET content       == Get(response.content, << >>)
        json_response == MapGet(content, "application/json", EmptyMedia)
        schema        == Get(json_response.schema, EmptySchema)
    IN  [description |-> Get(response.description, << >>),
         schema      |-> schema,
         example     |-> PyOr(json_response.example, schema.example)]

\* a variant of Response2 that takes the first entry of `examples`, whatever its media type
Response2_FirstExample(response) ==
    LET examples_ == Get(response.examples, << >>)
    IN  [description |-> Get(response.description, << >>),
         schema      |-> Get(response.schema, EmptySchema),
         example     |-> IF examples_ = << >> THEN None ELSE Some(examples_[1].v)]

Response2(response) ==
    [description |-> Get(response.description, << >>),
     schema      |-> Get(response.schema, EmptySchema),
     example     |-> MapGetOpt(Get(response.examples, << >>), "application/json")]

_parse_responses(responses, version) ==
    [i \in 1..Len(responses) |->
        [k |-> responses[i].k,
         v |-> IF StartsWith3(version) THEN Response3(responses[i].v)
               ELSE Response2(responses[i].v)]]

\* the seven method keys, in the order the code tries them
get == <<"g", "e", "t">>

post == <<"p", "o", "s", "t">>

put == <<"p", "u", "t">>

patch == <<"p", "a", "t", "c", "h">>

delete == <<"d", "e", "l", "e", "t", "e">>

head == <<"h", "e", "a", "d">>

options == <<"o", "p", "t", "i", "o", "n", "s">>

METHODS == << get, post, put, patch, delete, head, options >>

\* the key 'parameters' of a path item
parameters == <<"p", "a", "r", "a", "m", "e", "t", "e", "r", "s">>

\* A path item is a mapping; the value under a key is carried as
\* [params |-> the list (key 'parameters'), op |-> the dictionary (any other key)].
PathParams(path_item) ==
    IF HasKey(path_item, parameters) THEN Lookup(path_item, parameters).params ELSE << >>

\* a variant of Endpoint that puts the operation's parameters first
Endpoint_OperationFirst(path, method, operation, path_params, version) ==
    LET all_params == Get(operation.parameters, << >>) \o path_params
    IN  [path         |-> path,
         method       |-> Upper(method),
         summary      |-> Get(operation.summary, << >>),
         description  |-> Get(operation.description, << >>),
         operation_id |-> Get(operation.operationId, << >>),
         tags         |-> Get(operation.tags, << >>),
         parameters   |-> _parse_parameters(all_params, version),
         request_body |-> _parse_request_body(operation.requestBody),
         responses    |-> _parse_responses(Get(operation.responses, << >>), version),
         security     |-> Get(operation.security, << >>),
         deprecated   |-> Get(operation.deprecated, FALSE)]

Endpoint(path, method, operation, path_params, version) ==
    LET all_params == path_params \o Get(operation.parameters, << >>)
    IN  [path         |-> path,
         method       |-> Upper(method),
         summary      |-> Get(operation.summary, << >>),
         description  |-> Get(operation.description, << >>),
         operation_id |-> Get(operation.operationId, << >>),
         tags         |-> Get(operation.tags, << >>),
         parameters   |-> _parse_parameters(all_params, version),
         request_body |-> _parse_request_body(operation.requestBody),
         responses    |-> _parse_responses(Get(operation.responses, << >>), version),
         security     |-> Get(operation.security, << >>),
         deprecated   |-> Get(operation.deprecated, FALSE)]

\* a variant of MethodKeys that keeps the order in which the path item declares the keys
MethodKeys_DeclaredOrder(path_item) ==
    SelectSeq([i \in 1..Len(path_item) |-> path_item[i].k],
              LAMBDA key : \E m \in DOMAIN METHODS : METHODS[m] = key)

\* a variant of MethodKeys that takes every key of the path item but 'parameters'
MethodKeys_EveryKey(path_item) ==
    SelectSeq([i \in 1..Len(path_item) |-> path_item[i].k], LAMBDA key : key # parameters)

\* the keys of one path item for which the inner loop builds an endpoint
MethodKeys(path_item) == SelectSeq(METHODS, LAMBDA method : HasKey(path_item, method))

PathEndpoints(path, path_item, version) ==
    LET path_params == PathParams(path_item)
        keys        == MethodKeys(path_item)
    IN  [i \in 1..Len(keys) |->
            Endpoint(path, keys[i], Lookup(path_item, keys[i]).op, path_params, version)]

_extract_endpoints(spec, version) ==
    LET paths == Get(spec.paths, << >>)
    IN  Flatten([i \in 1..Len(paths) |-> PathEndpoints(paths[i].k, paths[i].v, version)])

_extract_schemas(spec, version) ==
    IF StartsWith3(version)
    THEN Get(Get(spec.components, EmptyComponents).schemas, << >>)
    ELSE Get(spec.definitions, << >>)

_extract_tags(spec) ==
    LET tags == Get(spec.tags, << >>)
    IN  [i \in 1..Len(tags) |->
            [name        |-> Get(tags[i].name, << >>),
             description |-> Get(tags[i].description, << >>)]]

(***************************************************************************)
(* Example synthesis.  A snippet is the sequence of its text pieces.       *)
(***************************************************************************)
MaxExamples == 5

PlaceholderServer == <<"https://api.example.com">>

AuthHeader == <<"Authorization: Bearer YOUR_API_KEY">>

PlaceholderBody == <<"{example: data}">>

BodyMethods == { Upper(post), Upper(put), Upper(patch) }

\* self.spec.get('servers', [{}])[0] raises IndexError on an empty list
ServerIndexError(spec) == Get(spec.servers, << EmptyServer >>) = << >>

\* self.spec.get('servers', [{}])[0].get('url', 'https://api.example.com')
ServerUrl(spec) == Get(Get(spec.servers, << EmptyServer >>)[1].url, PlaceholderServer)

_generate_curl_example(spec, endpoint) ==
    LET server == ServerUrl(spec)
        path   == endpoint.path
        method == endpoint.method
    IN  <<"curl -X ">> \o method \o <<" '">> \o server \o path \o <<"'">>
        \o <<" -H 'Content-Type: application/json'">>
        \o (IF endpoint.security # << >> THEN <<" -H '">> \o AuthHeader \o <<"'">> ELSE << >>)
        \o (IF method \in BodyMethods /\ endpoint.request_body # None
            THEN <<" -d '">> \o PlaceholderBody \o <<"'">> ELSE << >>)

_generate_python_example(spec, endpoint) ==
    LET server == ServerUrl(spec)
        path   == endpoint.path
        method == Lower(endpoint.method)
    IN  <<"import requests", "url = '">> \o server \o path \o <<"'">>
        \o <<"headers = {", "Content-Type: application/json">> \o AuthHeader \o <<"}">>
        \o (IF method \in {post, put, patch}
            THEN <<"data = ">> \o PlaceholderBody \o <<"response = requests.">> \o method
                 \o <<"(url, headers=headers, json=data)">>
            ELSE <<"response = requests.">> \o method \o <<"(url, headers=headers)">>)
        \o <<"print(response.json())">>

_generate_javascript_example(spec, endpoint) ==
    LET server == ServerUrl(spec)
        path   == endpoint.path
        method == endpoint.method
    IN  <<"const url = '">> \o server \o path \o <<"';">>
        \o <<"const options = {", "method: '">> \o method \o <<"',">>
        \o <<"headers: {", "Content-Type: application/json">> \o AuthHeader \o <<"}">>
        \o (IF method \in BodyMethods
            THEN <<"body: JSON.stringify(">> \o PlaceholderBody \o <<")">> ELSE << >>)
        \o <<"};", "fetch(url, options)">>

\* a variant of _generate_examples that builds an example for every endpoint
_generate_examples_EveryEndpoint(spec, endpoints) ==
    [i \in 1..Len(endpoints) |->
        [endpoint  |-> endpoints[i].method \o <<" ">> \o endpoints[i].path,
         summary   |-> endpoints[i].summary,
         languages |-> [curl       |-> _generate_curl_example(spec, endpoints[i]),
                        python     |-> _generate_python_example(spec, endpoints[i]),
                        javascript |-> _generate_javascript_example(spec, endpoints[i])]]]

_generate_examples(spec, endpoints) ==
    LET firsts == Take(endpoints, MaxExamples)
    IN  [i \in 1..Len(firsts) |->
            [endpoint  |-> firsts[i].method \o <<" ">> \o firsts[i].path,
             summary   |-> firsts[i].summary,
             languages |-> [curl       |-> _generate_curl_example(spec, firsts[i]),
                            python     |-> _generate_python_example(spec, firsts[i]),
                            javascript |-> _generate_javascript_example(spec, firsts[i])]]]

\* _generate_examples raises as soon as it builds the first snippet
ExamplesRaise(spec, endpoints) == endpoints # << >> /\ ServerIndexError(spec)

(***************************************************************************)
(* The parser object and one parse_spec invocation.                        *)
(*   spec, version : self.spec, self.version (None after __init__)         *)
(*   pc            : the next statement of parse_spec to run               *)
(*   info .. examples : the locals of parse_spec                           *)
(*   result        : the returned model (None while none was returned)     *)
(*   error         : the exception that left parse_spec ("" if none)       *)
(* Several invocations on the one parser object:                           *)
(*   frames        : per invocation, its parameter, position, locals and   *)
(*                   outcome (used where more than one invocation runs)    *)
(* The handler of POST /api/parse/openapi:                                 *)
(*   request       : its arguments, position, locals, the stages it ran    *)
(*                   and its response                                      *)
(* The other services:                                                     *)
(*   lookup        : the last get_endpoint_by_path call and its answer     *)
(*   md            : one DocumentParser.parse_markdown invocation          *)
(*   reply         : the text the LLM answered and what was decoded of it  *)
(***************************************************************************)
VARIABLES spec, version, pc, info, servers, auth, endpoints, schemas, examples,
          result, error, frames, request, lookup, md, reply

vars == << spec, version, pc, info, servers, auth, endpoints, schemas, examples,
           result, error, frames, request, lookup, md, reply >>

\* what is outside of one parse_spec invocation
outside == << frames, request, lookup, md, reply >>

\* what neither the parser nor the handler of /api/parse/openapi touches
others == << lookup, md, reply >>

locals == << info, servers, auth, endpoints, schemas, examples >>

\* raise: the invocation ends without a return value
Raise(kind) ==
    /\ error' = kind
    /\ pc' = "failed"
    /\ result' = None

\* a variant of ParseSpecBegin that assumes Swagger 2.0 when no dialect key is found
ParseSpecBegin_DefaultDialect(d) ==
    /\ pc = "idle"
    /\ spec' = Some(d)
    /\ info' = None /\ servers' = None /\ auth' = None
    /\ endpoints' = None /\ schemas' = None /\ examples' = None
    /\ version' = Some(IF HasDialectKey(d) THEN DetectVersion(d)
                       ELSE [t |-> "str", v |-> <<"2", ".", "0">>])
    /\ pc' = "info"
    /\ UNCHANGED << result, error >>

\* lines 83-91: store the document, detect the dialect or raise
ParseSpecBegin(d) ==
    /\ pc = "idle"
    /\ spec' = Some(d)
    /\ info' = None /\ servers' = None /\ auth' = None
    /\ endpoints' = None /\ schemas' = None /\ examples' = None
    /\ IF HasDialectKey(d)
       THEN /\ version' = Some(DetectVersion(d))
            /\ pc' = "info"
            /\ UNCHANGED << result, error >>
       ELSE /\ Raise("InvalidSpecification")
            /\ UNCHANGED version

\* line 94
StepInfo ==
    /\ pc = "info"
    /\ info' = Some(_extract_info(spec[1]))
    /\ pc' = "servers"
    /\ UNCHANGED << spec, version, servers, auth, endpoints, schemas, examples, result, error >>
    /\ UNCHANGED outside

\* line 95; the first self.version.startswith
StepServers ==
    /\ pc = "servers"
    /\ IF IsStr(version[1])
       THEN /\ servers' = Some(_extract_servers(spec[1], version[1]))
            /\ pc' = "auth"
            /\ UNCHANGED << result, error >>
       ELSE /\ Raise("AttributeError")
            /\ UNCHANGED servers
    /\ UNCHANGED << spec, version, info, auth, endpoints, schemas, examples >>
    /\ UNCHANGED outside

\* line 96
StepAuth ==
    /\ pc = "auth"
    /\ auth' = Some(_extract_auth(spec[1], version[1]))
    /\ pc' = "endpoints"
    /\ UNCHANGED << spec, version, info, servers, endpoints, schemas, examples, result, error >>
    /\ UNCHANGED outside

\* line 97
StepEndpoints ==
    /\ pc = "endpoints"
    /\ endpoints' = Some(_extract_endpoints(spec[1], version[1]))
    /\ pc' = "schemas"
    /\ UNCHANGED << spec, version, info, servers, auth, schemas, examples, result, error >>
    /\ UNCHANGED outside

\* line 98
StepSchemas ==
    /\ pc = "schemas"
    /\ schemas' = Some(_extract_schemas(spec[1], version[1]))
    /\ pc' = "examples"
    /\ UNCHANGED << spec, version, info, servers, auth, endpoints, examples, result, error >>
    /\ UNCHANGED outside

\* line 99
StepExamples ==
    /\ pc = "examples"
    /\ IF ExamplesRaise(spec[1], endpoints[1])
       THEN /\ Raise("IndexError")
            /\ UNCHANGED examples
       ELSE /\ examples' = Some(_generate_examples(spec[1], endpoints[1]))
            /\ pc' = "return"
            /\ UNCHANGED << result, error >>
    /\ UNCHANGED << spec, version, info, servers, auth, endpoints, schemas >>
    /\ UNCHANGED outside

\* the dictionary parse_spec returns
Model(v, i, s, a, e, sc, ex, t) ==
    [version        |-> v,
     info           |-> i,
     servers        |-> s,
     authentication |-> a,
     endpoints      |-> e,
     schemas        |-> sc,
     examples       |-> ex,
     endpoint_count |-> Len(e),
     tags           |-> t]

\* lines 101-111
StepReturn ==
    /\ pc = "return"
    /\ result' = Some(Model(version[1], info[1], servers[1], auth[1], endpoints[1],
                            schemas[1], examples[1], _extract_tags(spec[1])))
    /\ pc' = "done"
    /\ UNCHANGED << spec, version, locals, error >>
    /\ UNCHANGED outside

\* what one parse_spec invocation that runs alone on a fresh or used parser gives for
\* the document d: lines 83-111 from top to bottom
SoloOutcome(d) ==
    IF ~HasDialectKey(d) THEN [result |-> None, error |-> "InvalidSpecification"]
    ELSE LET v == DetectVersion(d)
         IN  IF ~IsStr(v) THEN [result |-> None, error |-> "AttributeError"]
             ELSE LET e == _extract_endpoints(d, v)
                  IN  IF ExamplesRaise(d, e) THEN [result |-> None, error |-> "IndexError"]
                      ELSE [result |-> Some(Model(v, _extract_info(d), _extract_servers(d, v),
                                                  _extract_auth(d, v), e, _extract_schemas(d, v),
                                                  _generate_examples(d, e), _extract_tags(d))),
                            error  |-> ""]

(***************************************************************************)
(* The documents parse_spec is called with.  Each family varies one part   *)
(* of a document up to its bound and keeps the rest fixed.                 *)
(***************************************************************************)
MaxParams == 2

MaxContentTypes == 2

MaxResponses == 2

MaxSchemes == 2

MaxPaths == 2

SeqsOfLen(S, n) == [1..n -> S]

SeqsUpTo(S, n) == UNION { SeqsOfLen(S, len) : len \in 0..n }

\* sequences without repetition: the key order of a mapping
InjSeqsOfLen(S, n) ==
    { s \in SeqsOfLen(S, n) : \A i, j \in 1..n : i # j => s[i] # s[j] }

\* the mappings with up to n entries, keys from K (distinct), values from W
MapsUpTo(K, W, n) ==
    UNION { { [i \in 1..len |-> [k |-> ks[i], v |-> ws[i]]] :
                ks \in InjSeqsOfLen(K, len), ws \in SeqsOfLen(W, len) } : len \in 0..n }

Reverse(s) == [i \in 1..Len(s) |-> s[Len(s) + 1 - i]]

Str(chars) == [t |-> "str", v |-> chars]

\* YAML `swagger: 2.0` decodes to a number
Number20 == [t |-> "num", v |-> <<"2", ".", "0">>]

OpenapiValues ==
    { Str(<<"3", ".", "0", ".", "0">>), Str(<<"3">>), Str(<<"3", ".", "1">>),
      Str(<<"3", "0", ".", "0">>), Str(<<"4", ".", "0">>) }

SwaggerValues ==
    { Str(<<"2", ".", "0">>), Str(<<"1", ".", "2">>), Str(<<"3", ".", "0">>),
      Str(<< >>), Number20 }

Optional(S) == { None } \cup { Some(x) : x \in S }

JVal(t, v) == [t |-> t, v |-> v]

SchemaInt ==
    [type |-> Some(<<"integer">>), format |-> Some(<<"int64">>),
     default |-> Some(JVal("num", "1")), example |-> Some(JVal("num", "7"))]

SchemaObj ==
    [type |-> Some(<<"object">>), format |-> None, default |-> None,
     example |-> Some(JVal("map", "{a: 1}"))]

SchemaStr == [type |-> Some(<<"string">>), format |-> None, default |-> None, example |-> None]

EmptyParam ==
    [name |-> None, in |-> None, description |-> None, required |-> None, schema |-> None,
     type |-> None, format |-> None, default |-> None, example |-> None]

\* {name: id, in: path, required: true, schema: {...}}
ParamId3 ==
    [EmptyParam EXCEPT !.name = Some(<<"id">>), !.in = Some(<<"path">>),
                       !.required = Some(TRUE), !.schema = Some(SchemaInt)]

\* {name: id, in: query, type: string, default: x, description: ...}: the flat 2.0 form
ParamId2 ==
    [EmptyParam EXCEPT !.name = Some(<<"id">>), !.in = Some(<<"query">>),
                       !.description = Some(<<"the id">>), !.type = Some(<<"string">>),
                       !.default = Some(JVal("str", "x"))]

\* {name: q, in: query, example: 0, schema: {...}}
ParamQ ==
    [EmptyParam EXCEPT !.name = Some(<<"q">>), !.in = Some(<<"query">>),
                       !.example = Some(JVal("num", "0")), !.schema = Some(SchemaObj)]

ParamPool == { ParamId3, ParamId2, ParamQ }

ContentTypes == { "application/json", "application/xml", "text/plain" }

MediaPool ==
    { EmptyMedia,
      [schema |-> Some(SchemaObj), example |-> Some(JVal("str", "explicit"))],
      [schema |-> Some(SchemaInt), example |-> None],
      [schema |-> Some(SchemaStr), example |-> Some(JVal("bool", "false"))] }

RequestBodies ==
    { [required |-> r, description |-> dsc, content |-> c] :
        r \in { None, Some(TRUE) },
        dsc \in { None, Some(<<"the body">>) },
        c \in Optional(MapsUpTo(ContentTypes, MediaPool, MaxContentTypes)) }

EmptyResponse == [description |-> None, content |-> None, schema |-> None, examples |-> None]

ResponsePool ==
    { EmptyResponse,
      [EmptyResponse EXCEPT !.description = Some(<<"ok">>)],
      [EmptyResponse EXCEPT !.description = Some(<<"found">>), !.schema = Some(SchemaObj),
          !.examples = Some(<< [k |-> "application/xml", v |-> JVal("str", "<two/>")],
                               [k |-> "application/json", v |-> JVal("str", "two")] >>)],
      [EmptyResponse EXCEPT !.content = Some(<<
          [k |-> "application/xml", v |-> [schema |-> Some(SchemaStr), example |-> None]],
          [k |-> "application/json",
           v |-> [schema |-> Some(SchemaInt), example |-> Some(JVal("str", "three"))]] >>)] }

StatusCodes == { <<"200">>, <<"404">>, <<"default">> }

ResponseMaps == MapsUpTo(StatusCodes, ResponsePool, MaxResponses)

EmptyScheme ==
    [type |-> None, description |-> None, in |-> None, scheme |-> None,
     bearerFormat |-> None, flows |-> None, flow |-> None]

BearerScheme ==
    [EmptyScheme EXCEPT !.type = Some(<<"http">>), !.scheme = Some(<<"bearer">>),
                        !.bearerFormat = Some(<<"JWT">>)]

ApiKeyScheme ==
    [EmptyScheme EXCEPT !.type = Some(<<"apiKey">>), !.in = Some(<<"header">>),
                        !.description = Some(<<"key">>)]

OAuthScheme == [EmptyScheme EXCEPT !.type = Some(<<"oauth2">>), !.flow = Some(<<"implicit">>)]

EmptyDoc ==
    [openapi |-> None, swagger |-> None, info |-> None, servers |-> None, host |-> None,
     basePath |-> None, schemes |-> None, components |-> None,
     securityDefinitions |-> None, definitions |-> None, paths |-> None, tags |-> None]

OpenApi300 == [EmptyDoc EXCEPT !.openapi = Some(Str(<<"3", ".", "0", ".", "0">>))]

Swagger20 == [EmptyDoc EXCEPT !.swagger = Some(Str(<<"2", ".", "0">>))]

Swagger12 == [EmptyDoc EXCEPT !.swagger = Some(Str(<<"1", ".", "2">>))]

\* an entry of a path item: an operation under `key`, or the list under 'parameters'
OpEntry(key, operation) == [k |-> key, v |-> [params |-> << >>, op |-> operation]]

ParamsEntry(params) == [k |-> parameters, v |-> [params |-> params, op |-> EmptyOperation]]

Op(params, body, responses, security) ==
    [EmptyOperation EXCEPT !.parameters = params, !.requestBody = body,
                           !.responses = responses, !.security = security]

JsonBody ==
    [EmptyRequestBody EXCEPT !.content = Some(<<
        [k |-> "application/json", v |-> [schema |-> Some(SchemaObj), example |-> None]] >>)]

OkResponses == << [k |-> <<"200">>, v |-> [EmptyResponse EXCEPT !.description = Some(<<"ok">>)]] >>

BearerSecurity == << <<"bearerAuth">> >>

\* the operation declared under a key in the documents that vary the keys
OpFor(key) ==
    CASE key = post   -> Op(None, Some(JsonBody), Some(OkResponses), Some(BearerSecurity))
      [] key = get    -> [Op(Some(<<ParamQ>>), None, Some(OkResponses), None)
                             EXCEPT !.summary = Some(<<"read">>), !.tags = Some(<< <<"t">> >>)]
      [] key = put    -> Op(None, None, None, Some(BearerSecurity))
      [] key = delete -> [EmptyOperation EXCEPT !.deprecated = Some(TRUE),
                                                !.operationId = Some(<<"del">>)]
      [] OTHER        -> EmptyOperation

KeyEntry(key) == IF key = parameters THEN ParamsEntry(<<ParamId3>>) ELSE OpEntry(key, OpFor(key))

PathItemOf(keys) == [i \in 1..Len(keys) |-> KeyEntry(keys[i])]

WithPaths(d, paths) == [d EXCEPT !.paths = Some(paths)]

OnePath(d, path_item) == WithPaths(d, << [k |-> <<"/a">>, v |-> path_item] >>)

\* --- documents that vary the dialect marker ------------------------------
Markers ==
    { [openapi |-> o, swagger |-> s] :
        o \in Optional(OpenapiValues), s \in Optional(SwaggerValues) }

Server1 == [url |-> Some(<<"https://one.example">>), description |-> Some(<<"first">>)]

Server2 == [url |-> None, description |-> None]

ServerLists == { None, Some(<< >>), Some(<<Server1>>), Some(<<Server2, Server1>>) }

\* a document with every optional top-level part of both dialects present
RichDoc ==
    [EmptyDoc EXCEPT
        !.info = Some([EmptyInfo EXCEPT !.title = Some(<<"Pets">>),
                                        !.contact = Some(<< [k |-> "name", v |-> <<"dev">>] >>)]),
        !.host = Some(<<"api.example.org">>),
        !.basePath = Some(<<"/v1">>),
        !.schemes = Some(<< <<"http">> >>),
        !.components = Some([securitySchemes |-> Some(<< [k |-> <<"bearerAuth">>, v |-> BearerScheme],
                                                         [k |-> <<"key">>, v |-> ApiKeyScheme] >>),
                             schemas |-> Some(<< [k |-> <<"Pet">>, v |-> SchemaObj] >>)]),
        !.securityDefinitions = Some(<< [k |-> <<"oauth">>, v |-> OAuthScheme] >>),
        !.definitions = Some(<< [k |-> <<"Pet">>, v |-> SchemaStr],
                                [k |-> <<"Id">>, v |-> SchemaInt] >>),
        !.tags = Some(<< [name |-> Some(<<"pets">>), description |-> None] >>)]

RichPaths ==
    << [k |-> <<"/pets">>,
        v |-> << ParamsEntry(<<ParamId3>>),
                 OpEntry(post, Op(Some(<<ParamId2>>), Some(JsonBody),
                                  Some(<< [k |-> <<"200">>, v |-> [EmptyResponse EXCEPT
                                              !.schema = Some(SchemaObj),
                                              !.content = Some(<< [k |-> "application/json",
                                                  v |-> [schema |-> Some(SchemaInt), example |-> None]] >>)]] >>),
                                  Some(BearerSecurity))) >>] >>

MarkerDocs ==
    { [RichDoc EXCEPT !.openapi = m.openapi, !.swagger = m.swagger,
                      !.servers = sv, !.paths = ps] :
        m \in Markers, sv \in { None, Some(<< >>), Some(<<Server1>>) },
        ps \in { None, Some(RichPaths) } }

\* --- documents that vary the two parameter lists -------------------------
ParamLists == SeqsUpTo(ParamPool, MaxParams)

ParamDocs ==
    { OnePath(base, << ParamsEntry(pp), OpEntry(get, Op(Some(op), None, None, None)) >>) :
        base \in { OpenApi300, Swagger20 }, pp \in ParamLists, op \in ParamLists }

\* --- documents that vary the keys of one path item -----------------------
GET == Upper(get)

trace == <<"t", "r", "a", "c", "e">>

KeyPool == << options, GET, post, parameters, get, trace, delete, put, head, patch >>

KeySeqs ==
    LET forward == { SelectSeq([i \in 1..Len(KeyPool) |-> i], LAMBDA i : i \in I) :
                        I \in SUBSET (1..Len(KeyPool)) }
        picked  == { [i \in 1..Len(ix) |-> KeyPool[ix[i]]] : ix \in forward }
    IN  picked \cup { Reverse(ks) : ks \in picked }

KeyDocs == { OnePath(OpenApi300, PathItemOf(keys)) : keys \in KeySeqs }

\* --- documents that vary the request body of one operation ---------------
BodyDocs ==
    { OnePath(base, << OpEntry(method, Op(None, body, None, None)) >>) :
        base \in { OpenApi300, Swagger20 }, method \in { post, get },
        body \in Optional(RequestBodies) }

\* --- documents that vary the responses of one operation ------------------
ResponseDocs ==
    { OnePath(base, << OpEntry(get, Op(None, None, responses, None)) >>) :
        base \in { OpenApi300, Swagger20 }, responses \in Optional(ResponseMaps) }

\* --- documents that vary host, basePath, schemes and servers -------------
SchemeLists == SeqsUpTo({ <<"http">>, <<"https">> }, MaxSchemes)

ServerDocs ==
    { [base EXCEPT !.schemes = sch, !.host = h, !.basePath = bp, !.servers = sv, !.paths = ps] :
        base \in { Swagger20, Swagger12, OpenApi300 },
        sch \in Optional(SchemeLists),
        h \in { None, Some(<<"api.example.org">>) },
        bp \in { None, Some(<<"/v1">>) },
        sv \in ServerLists,
        ps \in { None, Some(<< [k |-> <<"/ping">>, v |-> << OpEntry(get, Op(None, None, Some(OkResponses), None)) >>] >>) } }

\* --- documents with several paths ----------------------------------------
PathItemPool ==
    { PathItemOf(<<get>>), PathItemOf(<<post, get>>), PathItemOf(<<parameters, delete, GET>>),
      PathItemOf(Reverse(METHODS)) }

PathName(i) == <<"/p", ToString(i)>>

PathDocs ==
    { WithPaths(base, [i \in 1..Len(items) |-> [k |-> PathName(i), v |-> items[i]]]) :
        base \in { OpenApi300, Swagger20 }, items \in SeqsUpTo(PathItemPool, MaxPaths) }

Docs == MarkerDocs \cup ParamDocs \cup KeyDocs \cup BodyDocs \cup ResponseDocs
        \cup ServerDocs \cup PathDocs

(***************************************************************************)
(* The specification: a parser is constructed and parse_spec is called on  *)
(* one document.                                                           *)
(***************************************************************************)
\* __init__
Init ==
    /\ spec = None
    /\ version = None
    /\ pc = "idle"
    /\ info = None /\ servers = None /\ auth = None
    /\ endpoints = None /\ schemas = None /\ examples = None
    /\ result = None
    /\ error = ""
    /\ frames = << >>
    /\ request = << >>
    /\ lookup = None
    /\ md = << >>
    /\ reply = << >>

parse_spec == pc = "idle" /\ UNCHANGED outside /\ \E d \in Docs : ParseSpecBegin(d)

Next ==
    \/ parse_spec
    \/ StepInfo
    \/ StepServers
    \/ StepAuth
    \/ StepEndpoints
    \/ StepSchemas
    \/ StepExamples
    \/ StepReturn

Spec == Init /\ [][Next]_vars

(***************************************************************************)
(* Several parse_spec invocations on the one OpenAPIParser object that     *)
(* main.py builds at import.  self.spec and self.version (spec, version)   *)
(* belong to the object; the parameter and the locals belong to the        *)
(* invocation (frames[i]).  Each action is one statement of parse_spec.    *)
(***************************************************************************)
MaxCalls == 2

\* the two calling contexts of the concurrent case
Contexts == { 1, 2 }

IdleFrame ==
    [pc |-> "idle", arg |-> None, info |-> None, servers |-> None, auth |-> None,
     endpoints |-> None, schemas |-> None, examples |-> None, result |-> None, error |-> ""]

\* the variables of the single invocation above, not used here
single == << pc, info, servers, auth, endpoints, schemas, examples, result, error >>

Started(i) == frames[i].pc # "idle"

Ended(i) == frames[i].pc = "done" \/ frames[i].pc = "failed"

FrameRaise(i, kind) ==
    frames' = [frames EXCEPT ![i].error = kind, ![i].pc = "failed", ![i].result = None]

\* the call and line 83: self.spec = spec
FrameBegin(i, d) ==
    /\ frames[i].pc = "idle"
    /\ \A j \in DOMAIN frames : j < i => Started(j)
    /\ spec' = Some(d)
    /\ frames' = [frames EXCEPT ![i].arg = Some(d), ![i].pc = "detect"]
    /\ UNCHANGED << version, single, request, others >>

\* a variant of FrameDetect that detects the dialect only while self.version is unset
FrameDetect_KeepVersion(i) ==
    /\ frames[i].pc = "detect"
    /\ IF HasDialectKey(frames[i].arg[1])
       THEN /\ version' = (IF version = None THEN Some(DetectVersion(frames[i].arg[1]))
                           ELSE version)
            /\ frames' = [frames EXCEPT ![i].pc = "info"]
       ELSE /\ FrameRaise(i, "InvalidSpecification")
            /\ UNCHANGED version
    /\ UNCHANGED << spec, single, request, others >>

\* lines 86-91, on the parameter `spec`
FrameDetect(i) ==
    /\ frames[i].pc = "detect"
    /\ IF HasDialectKey(frames[i].arg[1])
       THEN /\ version' = Some(DetectVersion(frames[i].arg[1]))
            /\ frames' = [frames EXCEPT ![i].pc = "info"]
       ELSE /\ FrameRaise(i, "InvalidSpecification")
            /\ UNCHANGED version
    /\ UNCHANGED << spec, single, request, others >>

\* line 94
FrameInfo(i) ==
    /\ frames[i].pc = "info"
    /\ frames' = [frames EXCEPT ![i].info = Some(_extract_info(spec[1])), ![i].pc = "servers"]
    /\ UNCHANGED << spec, version, single, request, others >>

\* line 95
FrameServers(i) ==
    /\ frames[i].pc = "servers"
    /\ IF IsStr(version[1])
       THEN frames' = [frames EXCEPT ![i].servers = Some(_extract_servers(spec[1], version[1])),
                                     ![i].pc = "auth"]
       ELSE FrameRaise(i, "AttributeError")
    /\ UNCHANGED << spec, version, single, request, others >>

\* line 96
FrameAuth(i) ==
    /\ frames[i].pc = "auth"
    /\ IF IsStr(version[1])
       THEN frames' = [frames EXCEPT ![i].auth = Some(_extract_auth(spec[1], version[1])),
                                     ![i].pc = "endpoints"]
       ELSE FrameRaise(i, "AttributeError")
    /\ UNCHANGED << spec, version, single, request, others >>

\* _extract_endpoints reaches self.version.startswith (lines 228, 281) only for an
\* operation that has a parameter or a response
EndpointsReadVersion(d) ==
    LET paths == Get(d.paths, << >>)
    IN  \E p \in DOMAIN paths : \E k \in DOMAIN MethodKeys(paths[p].v) :
            LET operation == Lookup(paths[p].v, MethodKeys(paths[p].v)[k]).op
            IN  \/ PathParams(paths[p].v) \o Get(operation.parameters, << >>) # << >>
                \/ Get(operation.responses, << >>) # << >>

\* a variant of FrameEndpoints that appends to the list the invocation before it built
FrameEndpoints_Accumulate(i) ==
    /\ frames[i].pc = "endpoints"
    /\ frames' = [frames EXCEPT
                    ![i].endpoints = Some((IF i > 1 /\ frames[i - 1].endpoints # None
                                           THEN frames[i - 1].endpoints[1] ELSE << >>)
                                          \o _extract_endpoints(spec[1], version[1])),
                    ![i].pc = "schemas"]
    /\ UNCHANGED << spec, version, single, request, others >>

\* line 97
FrameEndpoints(i) ==
    /\ frames[i].pc = "endpoints"
    /\ IF EndpointsReadVersion(spec[1]) => IsStr(version[1])
       THEN frames' = [frames EXCEPT
                         ![i].endpoints = Some(_extract_endpoints(spec[1], version[1])),
                         ![i].pc = "schemas"]
       ELSE FrameRaise(i, "AttributeError")
    /\ UNCHANGED << spec, version, single, request, others >>

\* line 98
FrameSchemas(i) ==
    /\ frames[i].pc = "schemas"
    /\ IF IsStr(version[1])
       THEN frames' = [frames EXCEPT ![i].schemas = Some(_extract_schemas(spec[1], version[1])),
                                     ![i].pc = "examples"]
       ELSE FrameRaise(i, "AttributeError")
    /\ UNCHANGED << spec, version, single, request, others >>

\* line 99
FrameExamples(i) ==
    /\ frames[i].pc = "examples"
    /\ IF ExamplesRaise(spec[1], frames[i].endpoints[1])
       THEN FrameRaise(i, "IndexError")
       ELSE frames' = [frames EXCEPT
                         ![i].examples = Some(_generate_examples(spec[1], frames[i].endpoints[1])),
                         ![i].pc = "return"]
    /\ UNCHANGED << spec, version, single, request, others >>

\* lines 101-111
FrameReturn(i) ==
    /\ frames[i].pc = "return"
    /\ frames' = [frames EXCEPT
                    ![i].result = Some(Model(version[1], frames[i].info[1], frames[i].servers[1],
                                             frames[i].auth[1], frames[i].endpoints[1],
                                             frames[i].schemas[1], frames[i].examples[1],
                                             _extract_tags(spec[1]))),
                    ![i].pc = "done"]
    /\ UNCHANGED << spec, version, single, request, others >>

\* the documents of the invocations: every dialect marker of interest, with and without
\* an empty servers list, on the document that has every optional part
RepeatDocs ==
    { [RichDoc EXCEPT !.openapi = m.openapi, !.swagger = m.swagger,
                      !.servers = sv, !.paths = Some(RichPaths)] :
        m \in { [openapi |-> Some(Str(<<"3", ".", "0", ".", "0">>)), swagger |-> None],
                [openapi |-> None, swagger |-> Some(Str(<<"2", ".", "0">>))],
                [openapi |-> None, swagger |-> Some(Number20)],
                [openapi |-> None, swagger |-> None] },
        sv \in { None, Some(<< >>), Some(<<Server1>>) } }
    \cup { OpenApi300, Swagger20 }

\* __init__, and no invocation yet
InitFrames(ids) ==
    /\ spec = None
    /\ version = None
    /\ pc = "idle"
    /\ info = None /\ servers = None /\ auth = None
    /\ endpoints = None /\ schemas = None /\ examples = None
    /\ result = None
    /\ error = ""
    /\ frames = [i \in ids |-> IdleFrame]
    /\ request = << >>
    /\ lookup = None
    /\ md = << >>
    /\ reply = << >>

\* a call made when no invocation is running: one caller, one call after the other
CallInTurn(i, d) ==
    /\ \A j \in DOMAIN frames : frames[j].pc = "idle" \/ Ended(j)
    /\ FrameBegin(i, d)

InitSeq == InitFrames(1..MaxCalls)

NextSeq ==
    \/ \E i \in DOMAIN frames : \E d \in RepeatDocs : CallInTurn(i, d)
    \/ \E i \in DOMAIN frames : FrameDetect(i)
    \/ \E i \in DOMAIN frames : FrameInfo(i)
    \/ \E i \in DOMAIN frames : FrameServers(i)
    \/ \E i \in DOMAIN frames : FrameAuth(i)
    \/ \E i \in DOMAIN frames : FrameEndpoints(i)
    \/ \E i \in DOMAIN frames : FrameSchemas(i)
    \/ \E i \in DOMAIN frames : FrameExamples(i)
    \/ \E i \in DOMAIN frames : FrameReturn(i)

\* successive calls on one parser object
SpecSeq == InitSeq /\ [][NextSeq]_vars

InitConc == InitFrames(Contexts)

NextConc ==
    \/ \E i \in DOMAIN frames : \E d \in RepeatDocs : FrameBegin(i, d)
    \/ \E i \in DOMAIN frames : FrameDetect(i)
    \/ \E i \in DOMAIN frames : FrameInfo(i)
    \/ \E i \in DOMAIN frames : FrameServers(i)
    \/ \E i \in DOMAIN frames : FrameAuth(i)
    \/ \E i \in DOMAIN frames : FrameEndpoints(i)
    \/ \E i \in DOMAIN frames : FrameSchemas(i)
    \/ \E i \in DOMAIN frames : FrameExamples(i)
    \/ \E i \in DOMAIN frames : FrameReturn(i)

\* two calling contexts whose statements interleave
SpecConc == InitConc /\ [][NextConc]_vars

(***************************************************************************)
(* main.py: one request to POST /api/parse/openapi, handled by             *)
(* parse_openapi_spec(url, spec) with the parser object above.             *)
(*   request.stages : the stages the handler ran so far, in order          *)
(*                    ("fetch": requests.get, "normalise": parse_spec,     *)
(*                     "llm": client.messages.create)                      *)
(***************************************************************************)
IdleRequest ==
    [pc |-> "waiting", url |-> None, spec |-> None, document |-> None,
     api_analysis |-> None, enhanced |-> None, stages |-> << >>, response |-> None]

\* the parser object and its one invocation
parser == << spec, version, single >>

ApiUrl == <<"https://api.example.org/openapi.yaml">>

\* requests.get / raise_for_status / response.json / yaml.safe_load raise
FetchErrors == { "ConnectionError", "HTTPError", "DecodeError" }

\* client.messages.create raises, or the answer is no JSON
LlmErrors == { "APIError", "JSONDecodeError" }

\* what the LLM answers, decoded
Insights == { <<"summary one">>, <<"summary two">> }

\* raise HTTPException(status_code=..., detail=...): the response of the request
HTTPException(status_code, detail) ==
    request' = [request EXCEPT
                  !.response = Some([status |-> status_code, detail |-> detail, body |-> None]),
                  !.pc = "responded"]

\* the request arrives with its two optional arguments
Receive(u, s) ==
    /\ request.pc = "waiting"
    /\ request' = [request EXCEPT !.url = u, !.spec = s, !.pc = "dispatch"]
    /\ UNCHANGED << parser, frames, others >>

\* lines 235-245: `if url` / `elif spec` ({} is falsy) / else; the HTTPException(400)
\* of line 242 is raised inside the try and caught at line 257
Dispatch ==
    /\ request.pc = "dispatch"
    /\ IF request.url # None
       THEN request' = [request EXCEPT !.pc = "fetch"]
       ELSE IF request.spec # None /\ request.spec[1] # EmptyDoc
            THEN request' = [request EXCEPT !.document = request.spec, !.pc = "call"]
            ELSE HTTPException(500, <<"400: Must provide either 'url' or 'spec'">>)
    /\ UNCHANGED << parser, frames, others >>

\* parse_from_url lines 51-65 raise; line 70 wraps, main.py line 258 answers
FetchFails(kind) ==
    /\ request.pc = "fetch"
    /\ request' = [request EXCEPT
                     !.stages = Append(@, "fetch"),
                     !.response = Some([status |-> 500,
                                        detail |-> <<"Failed to parse OpenAPI spec from URL: ", kind>>,
                                        body   |-> None]),
                     !.pc = "responded"]
    /\ UNCHANGED << parser, frames, others >>

\* parse_from_url lines 51-65 give the decoded document
FetchDecodes(d) ==
    /\ request.pc = "fetch"
    /\ request' = [request EXCEPT !.stages = Append(@, "fetch"),
                                  !.document = Some(d), !.pc = "call"]
    /\ UNCHANGED << parser, frames, others >>

\* openapi_parser.py line 67 or main.py line 240: the call of parse_spec
Normalise ==
    /\ request.pc = "call"
    /\ ParseSpecBegin(request.document[1])
    /\ request' = [request EXCEPT !.stages = Append(@, "normalise"), !.pc = "parsing"]
    /\ UNCHANGED << frames, others >>

\* parse_spec returned: api_analysis is bound
NormaliserReturned ==
    /\ request.pc = "parsing"
    /\ pc = "done"
    /\ request' = [request EXCEPT !.api_analysis = result, !.pc = "llm"]
    /\ UNCHANGED << parser, frames, others >>

\* parse_spec raised: line 70 wraps if the document came from the URL, line 258 answers
NormaliserRaised ==
    /\ request.pc = "parsing"
    /\ pc = "failed"
    /\ HTTPException(500, IF request.url # None
                          THEN <<"Failed to parse OpenAPI spec from URL: ", error>>
                          ELSE <<error>>)
    /\ UNCHANGED << parser, frames, others >>

\* main.py line 248, llm_service.py lines 299-316: the LLM answers
LlmAnswers(insights) ==
    /\ request.pc = "llm"
    /\ request' = [request EXCEPT !.stages = Append(@, "llm"),
                                  !.enhanced = Some(insights), !.pc = "return"]
    /\ UNCHANGED << parser, frames, others >>

\* a variant of LlmFails that asks the LLM once more before it gives up
LlmFails_Retry(kind) ==
    /\ request.pc = "llm"
    /\ IF Len(request.stages) < 4
       THEN request' = [request EXCEPT !.stages = Append(@, "llm")]
       ELSE request' = [request EXCEPT
                          !.stages = Append(@, "llm"),
                          !.response = Some([status |-> 500,
                                             detail |-> <<"API analysis failed: ", kind>>,
                                             body   |-> None]),
                          !.pc = "responded"]
    /\ UNCHANGED << parser, frames, others >>

\* llm_service.py lines 318-319, main.py line 258
LlmFails(kind) ==
    /\ request.pc = "llm"
    /\ request' = [request EXCEPT
                     !.stages = Append(@, "llm"),
                     !.response = Some([status |-> 500,
                                        detail |-> <<"API analysis failed: ", kind>>,
                                        body   |-> None]),
                     !.pc = "responded"]
    /\ UNCHANGED << parser, frames, others >>

\* main.py lines 252-255: {**api_analysis, 'ai_insights': enhanced_analysis}
Respond ==
    /\ request.pc = "return"
    /\ request' = [request EXCEPT
                     !.response = Some([status |-> 200, detail |-> << >>,
                                        body   |-> Some([ai_insights |-> request.enhanced[1]]
                                                        @@ request.api_analysis[1])]),
                     !.pc = "responded"]
    /\ UNCHANGED << parser, frames, others >>

InitApi ==
    /\ spec = None
    /\ version = None
    /\ pc = "idle"
    /\ info = None /\ servers = None /\ auth = None
    /\ endpoints = None /\ schemas = None /\ examples = None
    /\ result = None
    /\ error = ""
    /\ frames = << >>
    /\ request = IdleRequest
    /\ lookup = None
    /\ md = << >>
    /\ reply = << >>

NextApi ==
    \/ \E u \in Optional({ ApiUrl }) : \E s \in Optional(RepeatDocs \cup { EmptyDoc }) : Receive(u, s)
    \/ Dispatch
    \/ \E kind \in FetchErrors : FetchFails(kind)
    \/ \E d \in RepeatDocs : FetchDecodes(d)
    \/ Normalise
    \/ StepInfo
    \/ StepServers
    \/ StepAuth
    \/ StepEndpoints
    \/ StepSchemas
    \/ StepExamples
    \/ StepReturn
    \/ NormaliserReturned
    \/ NormaliserRaised
    \/ \E insights \in Insights : LlmAnswers(insights)
    \/ \E kind \in LlmErrors : LlmFails(kind)
    \/ Respond

\* one request to the API-specification endpoint
SpecApi == InitApi /\ [][NextApi]_vars

(***************************************************************************)
(* get_endpoint_by_path, called between parse_spec calls on the parser.    *)
(*   lookup : None, or the last call: its arguments, its answer, and the   *)
(*            number of parse_spec calls made before it (after)            *)
(***************************************************************************)
\* `not operation` for the value a path item holds under a key: an empty dictionary
\* (or an empty list under 'parameters') is falsy
NotOperation(entry) == entry.params = << >> /\ entry.op = EmptyOperation

\* lines 440-454
get_endpoint_by_path(self_spec, path, method) ==
    IF self_spec = None \/ self_spec[1] = EmptyDoc THEN None
    ELSE LET paths     == Get(self_spec[1].paths, << >>)
             path_item == MapGet(paths, path, << >>)
             key       == Lower(method)
         IN  IF ~HasKey(path_item, key) THEN None
             ELSE IF NotOperation(Lookup(path_item, key)) THEN None
                  ELSE Some([path      |-> path,
                             method    |-> Upper(method),
                             operation |-> Lookup(path_item, key)])

\* the documents of the calls: method keys in lower and upper case, a key that is no
\* method, an operation that is an empty object, and documents parse_spec rejects
LookupDocs ==
    { OnePath(OpenApi300, PathItemOf(<<get, head, parameters, GET>>)),
      OnePath(Swagger20, << OpEntry(post, OpFor(post)), OpEntry(trace, OpFor(get)) >>),
      OnePath(EmptyDoc, PathItemOf(<<delete, put>>)),
      EmptyDoc,
      Swagger20,
      [OnePath(OpenApi300, PathItemOf(<<post>>)) EXCEPT !.servers = Some(<< >>)] }

LookupPaths == { <<"/a">>, <<"/b">> }

LookupMethods ==
    { get, GET, <<"G", "e", "t">>, head, post, put, delete, trace, parameters }

\* the number of parse_spec calls made so far
CallsMade == Cardinality({ i \in DOMAIN frames : Started(i) })

\* a call of get_endpoint_by_path while no parse_spec invocation is running
Query(path, method) ==
    /\ \A j \in DOMAIN frames : frames[j].pc = "idle" \/ Ended(j)
    /\ lookup' = Some([path   |-> path,
                       method |-> method,
                       answer |-> get_endpoint_by_path(spec, path, method),
                       after  |-> CallsMade])
    /\ UNCHANGED << spec, version, single, frames, request, md, reply >>

InitLookup == InitFrames(1..MaxCalls)

NextLookup ==
    \/ \E i \in DOMAIN frames : \E d \in LookupDocs : CallInTurn(i, d)
    \/ \E i \in DOMAIN frames : FrameDetect(i)
    \/ \E i \in DOMAIN frames : FrameInfo(i)
    \/ \E i \in DOMAIN frames : FrameServers(i)
    \/ \E i \in DOMAIN frames : FrameAuth(i)
    \/ \E i \in DOMAIN frames : FrameEndpoints(i)
    \/ \E i \in DOMAIN frames : FrameSchemas(i)
    \/ \E i \in DOMAIN frames : FrameExamples(i)
    \/ \E i \in DOMAIN frames : FrameReturn(i)
    \/ \E path \in LookupPaths : \E method \in LookupMethods : Query(path, method)

\* parse_spec calls in turn, and get_endpoint_by_path calls between them
SpecLookup == InitLookup /\ [][NextLookup]_vars

(***************************************************************************)
(* The markdown parser (services/doc_parser.py, class DocumentParser).     *)
(* A text is a sequence of one-character atoms, "\n" among them.           *)
(*   md : None, or the parse_markdown call under way: its position, its    *)
(*        argument, the locals bound so far and the dictionary returned    *)
(* The HTML rendering (self.md_parser.convert, the `html` field) is the    *)
(* markdown library's and is not modelled.                                 *)
(***************************************************************************)
\* the backquote character, which a TLA+ string cannot hold
Backquote == "BQ"

\* \s, as far as the texts below have it
IsSpace(c) == c = " " \/ c = "\t" \/ c = "\n"

\* \w
IsWord(c) == c \in {"a", "b", "c", "d", "e", "g", "p", "t", "x", "y", "A", "C", "7", "_"}

RECURSIVE Split(_)
\* str.split('\n')
Split(s) ==
    IF \A i \in DOMAIN s : s[i] # "\n" THEN << s >>
    ELSE LET i == CHOOSE k \in DOMAIN s : s[k] = "\n" /\ \A j \in 1..(k - 1) : s[j] # "\n"
         IN  << SubSeq(s, 1, i - 1) >> \o Split(SubSeq(s, i + 1, Len(s)))

RECURSIVE Join(_)
\* '\n'.join(lines)
Join(lines) ==
    IF lines = << >> THEN << >>
    ELSE IF Len(lines) = 1 THEN lines[1]
    ELSE lines[1] \o << "\n" >> \o Join(Tail(lines))

\* str.strip()
Strip(s) ==
    LET keep == { i \in DOMAIN s : ~IsSpace(s[i]) }
    IN  IF keep = {} THEN << >>
        ELSE SubSeq(s, CHOOSE i \in keep : \A j \in keep : i <= j,
                       CHOOSE i \in keep : \A j \in keep : j <= i)

\* str.startswith(prefix)
StartsWith(s, prefix) == Len(s) >= Len(prefix) /\ SubSeq(s, 1, Len(prefix)) = prefix

\* `piece in text`
Occurs(piece, text) ==
    \E p \in 1..Len(text) : p + Len(piece) - 1 <= Len(text)
                            /\ SubSeq(text, p, p + Len(piece) - 1) = piece

\* the length of the longest run of characters satisfying a class, from position p on
HashRun(s, p) == Cardinality({ n \in p..Len(s) : \A k \in p..n : s[k] = "#" })

SpaceRun(s, p) == Cardinality({ n \in p..Len(s) : \A k \in p..n : IsSpace(s[k]) })

WordRun(s, p) == Cardinality({ n \in p..Len(s) : \A k \in p..n : IsWord(s[k]) })

\* re.match(r'^(#{1,6})\s+(.+)$', line): None, or the length of group 1 and group 2.
\* \s+ takes the whole run of whitespace unless nothing would be left for (.+), and
\* then gives back its last character.
HeadingMatch(line) ==
    LET h    == HashRun(line, 1)
        w    == SpaceRun(line, h + 1)
        rest == SubSeq(line, h + w + 1, Len(line))
    IN  IF h < 1 \/ h > 6 \/ w < 1 THEN None
        ELSE IF rest # << >> THEN Some([level |-> h, title |-> rest])
        ELSE IF w >= 2 THEN Some([level |-> h, title |-> << line[Len(line)] >>])
        ELSE None

\* a section's `content`: the list of lines appended so far, or the joined text
Lines(list) == [t |-> "list", v |-> list]

Text(s) == [t |-> "str", v |-> s]

RECURSIVE SectionsLoop(_, _, _)
\* lines 123-147: the loop over the lines, then the last section
SectionsLoop(lines, sections, current_section) ==
    IF lines = << >>
    THEN IF current_section # None
         THEN Append(sections, [current_section[1] EXCEPT
                                    !.content = Text(Join(current_section[1].content.v))])
         ELSE sections
    ELSE LET heading_match == HeadingMatch(Head(lines))
         IN  IF heading_match # None
             THEN SectionsLoop(Tail(lines),
                               IF current_section # None
                               THEN Append(sections, current_section[1]) ELSE sections,
                               Some([level   |-> heading_match[1].level,
                                     title   |-> heading_match[1].title,
                                     content |-> Lines(<< >>)]))
             ELSE IF current_section # None
             THEN SectionsLoop(Tail(lines), sections,
                               Some([current_section[1] EXCEPT
                                         !.content = Lines(Append(current_section[1].content.v,
                                                                  Head(lines)))]))
             ELSE SectionsLoop(Tail(lines), sections, current_section)

\* lines 116-149
_extract_sections(content) == SectionsLoop(Split(content), << >>, None)

\* the first position from p on where the three backquotes stand, 0 if nowhere
FenceFrom(s, p) ==
    LET at == { q \in p..(Len(s) - 2) : s[q] = Backquote /\ s[q + 1] = Backquote /\ s[q + 2] = Backquote }
    IN  IF at = {} THEN 0 ELSE CHOOSE q \in at : \A r \in at : q <= r

\* r'```(\w+)?\n(.*?)```' tried at position p: None, or the block and where the match ends
BlockAt(s, p) ==
    LET w     == WordRun(s, p + 3)
        body  == p + 3 + w + 1
        close == FenceFrom(s, body)
    IN  IF FenceFrom(s, p) # p THEN None
        ELSE IF p + 3 + w > Len(s) \/ s[p + 3 + w] # "\n" THEN None
        ELSE IF close = 0 THEN None
        ELSE Some([language |-> IF w = 0 THEN << "t", "e", "x", "t" >>
                                ELSE SubSeq(s, p + 3, p + 2 + w),
                   code     |-> Strip(SubSeq(s, body, close - 1)),
                   end      |-> close + 3])

RECURSIVE BlocksFrom(_, _)
\* re.finditer: the matches from left to right, none overlapping
BlocksFrom(s, p) ==
    IF p > Len(s) THEN << >>
    ELSE IF BlockAt(s, p) = None THEN BlocksFrom(s, p + 1)
    ELSE << [language |-> BlockAt(s, p)[1].language, code |-> BlockAt(s, p)[1].code] >>
         \o BlocksFrom(s, BlockAt(s, p)[1].end)

\* lines 151-168
_extract_code_blocks(content) == BlocksFrom(content, 1)

RECURSIVE Collapse(_)
\* re.sub(r'[-\s]+', '-', slug)
Collapse(s) ==
    IF s = << >> THEN << >>
    ELSE IF Head(s) = "-" \/ IsSpace(Head(s))
    THEN LET run == Cardinality({ n \in 1..Len(s) :
                                      \A k \in 1..n : s[k] = "-" \/ IsSpace(s[k]) })
         IN  << "-" >> \o Collapse(SubSeq(s, run + 1, Len(s)))
    ELSE << Head(s) >> \o Collapse(Tail(s))

\* lines 214-220
_slugify(text) ==
    Collapse(SelectSeq(Lower(text), LAMBDA c : IsWord(c) \/ IsSpace(c) \/ c = "-"))

RECURSIVE HeadingsLoop(_)
\* lines 174-184
HeadingsLoop(lines) ==
    IF lines = << >> THEN << >>
    ELSE LET match == HeadingMatch(Head(lines))
         IN  (IF match # None
              THEN << [level |-> match[1].level,
                       title |-> match[1].title,
                       id    |-> _slugify(match[1].title)] >>
              ELSE << >>) \o HeadingsLoop(Tail(lines))

\* a variant of _extract_headings that takes every line starting with '#' for a heading
_extract_headings_AnyHash(content) ==
    LET lines == Split(content)
        hashed == SelectSeq(lines, LAMBDA line : StartsWith(line, << "#" >>))
    IN  [i \in 1..Len(hashed) |->
            [level |-> HashRun(hashed[i], 1),
             title |-> Strip(SubSeq(hashed[i], HashRun(hashed[i], 1) + 1, Len(hashed[i]))),
             id    |-> _slugify(Strip(SubSeq(hashed[i], HashRun(hashed[i], 1) + 1,
                                             Len(hashed[i]))))]]

\* lines 170-186
_extract_headings(content) == HeadingsLoop(Split(content))

\* the first of the lines at the given positions, as an optional value
FirstLine(lines, hits) ==
    IF hits = {} THEN None ELSE Some(lines[CHOOSE i \in hits : \A j \in hits : i <= j])

\* lines 188-212
_extract_metadata(content) ==
    LET lines == Split(content)
        title == FirstLine(lines, { i \in DOMAIN lines : StartsWith(lines[i], << "#", " " >>) })
        description == FirstLine(lines, { i \in DOMAIN lines :
                                              Strip(lines[i]) # << >>
                                              /\ ~StartsWith(lines[i], << "#" >>) })
    IN  [title       |-> IF title = None THEN None
                         ELSE Some(Strip(SubSeq(title[1], 3, Len(title[1])))),
         description |-> IF description = None THEN None ELSE Some(Strip(description[1])),
         has_code    |-> Occurs(<< Backquote, Backquote, Backquote >>, content),
         has_tables  |-> Occurs(<< "|" >>, content),
         line_count  |-> Len(lines)]

\* the lines the texts are made of
LinePool ==
    { << "#", " ", "A", "-", "b", "!" >>,
      << "#", "#", " ", "C", " ", " ", "d" >>,
      << "#", "t", "a", "g" >>,
      << "#", "#", "#", "#", "#", "#", "#", " ", "7" >>,
      << "#", " ", " " >>,
      << >>,
      << " ", "x", "|", "y", " " >>,
      << Backquote, Backquote, Backquote, "p", "y" >>,
      << Backquote, Backquote, Backquote >> }

\* the longest text, in lines
MaxLines == 3

RECURSIVE TextsOf(_)
\* the texts of exactly n lines
TextsOf(n) ==
    IF n = 1 THEN LinePool
    ELSE { t \o << "\n" >> \o line : t \in TextsOf(n - 1), line \in LinePool }

Texts == UNION { TextsOf(n) : n \in 1..MaxLines }

\* the call of parse_markdown (line 82)
ParseMarkdown(content) ==
    /\ md = None
    /\ md' = Some([pc |-> "sections", content |-> content, sections |-> None,
                   code_blocks |-> None, headings |-> None, result |-> None])
    /\ UNCHANGED << parser, frames, request, lookup, reply >>

\* line 99
ExtractSections ==
    /\ md # None /\ md[1].pc = "sections"
    /\ md' = Some([md[1] EXCEPT !.sections = Some(_extract_sections(md[1].content)),
                                !.pc = "code_blocks"])
    /\ UNCHANGED << parser, frames, request, lookup, reply >>

\* line 102
ExtractCodeBlocks ==
    /\ md # None /\ md[1].pc = "code_blocks"
    /\ md' = Some([md[1] EXCEPT !.code_blocks = Some(_extract_code_blocks(md[1].content)),
                                !.pc = "headings"])
    /\ UNCHANGED << parser, frames, request, lookup, reply >>

\* line 105
ExtractHeadings ==
    /\ md # None /\ md[1].pc = "headings"
    /\ md' = Some([md[1] EXCEPT !.headings = Some(_extract_headings(md[1].content)),
                                !.pc = "return"])
    /\ UNCHANGED << parser, frames, request, lookup, reply >>

\* lines 107-114
ReturnMarkdown ==
    /\ md # None /\ md[1].pc = "return"
    /\ md' = Some([md[1] EXCEPT
                       !.result = Some([raw         |-> md[1].content,
                                        sections    |-> md[1].sections[1],
                                        code_blocks |-> md[1].code_blocks[1],
                                        headings    |-> md[1].headings[1],
                                        metadata    |-> _extract_metadata(md[1].content)]),
                       !.pc = "done"])
    /\ UNCHANGED << parser, frames, request, lookup, reply >>

InitMd == InitFrames({})

NextMd ==
    \/ \E content \in Texts : ParseMarkdown(content)
    \/ ExtractSections
    \/ ExtractCodeBlocks
    \/ ExtractHeadings
    \/ ReturnMarkdown

\* one parse_markdown call on a text of Texts
SpecMd == InitMd /\ [][NextMd]_vars

(***************************************************************************)
(* The LLM service's reading of the model's answer (services/              *)
(* llm_service.py, analyze_documentation and analyze_api_documentation).   *)
(*   reply : None, or the call under way: the method called, its position, *)
(*           the answer's text, the text selected for decoding, the value  *)
(*           returned and the exception raised                             *)
(***************************************************************************)
RECURSIVE SplitOn(_, _)
\* str.split(sep) for a non-empty separator
SplitOn(s, sep) ==
    LET at == { p \in 1..Len(s) : p + Len(sep) - 1 <= Len(s)
                                  /\ SubSeq(s, p, p + Len(sep) - 1) = sep }
    IN  IF at = {} THEN << s >>
        ELSE LET p == CHOOSE q \in at : \A r \in at : q <= r
             IN  << SubSeq(s, 1, p - 1) >> \o SplitOn(SubSeq(s, p + Len(sep), Len(s)), sep)

Fence == << Backquote, Backquote, Backquote >>

FenceJson == Fence \o << "j", "s", "o", "n" >>

\* lines 94-99 (and 308-314): the text handed to json.loads
JsonText(content_text) ==
    IF Occurs(FenceJson, content_text)
    THEN SplitOn(SplitOn(content_text, FenceJson)[2], Fence)[1]
    ELSE IF Occurs(Fence, content_text)
    THEN SplitOn(SplitOn(content_text, Fence)[2], Fence)[1]
    ELSE content_text

Digits == { "1", "2", "7" }

\* a JSON number, as far as the texts below have one
IsNumber(t) == t # << >> /\ \A i \in DOMAIN t : t[i] \in Digits

\* json.loads(text): None where it raises JSONDecodeError, else the value decoded
\* (numbers, and arrays of at most one number)
JsonLoads(text) ==
    LET t == Strip(text)
    IN  IF IsNumber(t) THEN Some([t |-> "num", v |-> t])
        ELSE IF Len(t) >= 2 /\ t[1] = "[" /\ t[Len(t)] = "]"
        THEN LET inner == Strip(SubSeq(t, 2, Len(t) - 1))
             IN  IF inner = << >> THEN Some([t |-> "list", v |-> << >>])
                 ELSE IF IsNumber(inner)
                 THEN Some([t |-> "list", v |-> << [t |-> "num", v |-> inner] >>])
                 ELSE None
        ELSE None

\* the two methods and the message each wraps its exceptions in (lines 106, 319)
LlmMethods == { "analyze_documentation", "analyze_api_documentation" }

FailureMessage(method) ==
    IF method = "analyze_documentation" THEN "LLM analysis failed" ELSE "API analysis failed"

\* the pieces the answers are made of
PiecePool ==
    { FenceJson,
      Fence,
      << "\n", "[", "1", "]", "\n" >>,
      << "[", "2", "]" >>,
      << "x" >> }

\* the longest answer, in pieces
MaxPieces == 5

RECURSIVE AnswersOf(_)
\* the answers of exactly n pieces
AnswersOf(n) ==
    IF n = 0 THEN { << >> }
    ELSE { t \o piece : t \in AnswersOf(n - 1), piece \in PiecePool }

Answers == UNION { AnswersOf(n) : n \in 0..MaxPieces }

\* the call, up to the request sent to the model (lines 81-89, 299-303)
LlmCall(method) ==
    /\ reply = None
    /\ reply' = Some([method |-> method, pc |-> "await", content_text |-> None,
                      json_text |-> None, result |-> None, error |-> << >>])
    /\ UNCHANGED << parser, frames, request, lookup, md >>

\* line 92 (306): the model has answered
LlmReplies(text) ==
    /\ reply # None /\ reply[1].pc = "await"
    /\ reply' = Some([reply[1] EXCEPT !.content_text = Some(text), !.pc = "extract"])
    /\ UNCHANGED << parser, frames, request, lookup, md >>

\* client.messages.create raises; lines 105-106 (318-319)
LlmRaises ==
    /\ reply # None /\ reply[1].pc = "await"
    /\ reply' = Some([reply[1] EXCEPT
                          !.error = << FailureMessage(reply[1].method), "APIError" >>,
                          !.pc = "failed"])
    /\ UNCHANGED << parser, frames, request, lookup, md >>

\* lines 94-99 (308-314)
ExtractJson ==
    /\ reply # None /\ reply[1].pc = "extract"
    /\ reply' = Some([reply[1] EXCEPT !.json_text = Some(JsonText(reply[1].content_text[1])),
                                      !.pc = "decode"])
    /\ UNCHANGED << parser, frames, request, lookup, md >>

\* lines 101-106 (316-319): json.loads(json_text.strip()), returned or wrapped
DecodeJson ==
    /\ reply # None /\ reply[1].pc = "decode"
    /\ IF JsonLoads(Strip(reply[1].json_text[1])) # None
       THEN reply' = Some([reply[1] EXCEPT
                               !.result = JsonLoads(Strip(reply[1].json_text[1])),
                               !.pc = "done"])
       ELSE reply' = Some([reply[1] EXCEPT
                               !.error = << FailureMessage(reply[1].method), "JSONDecodeError" >>,
                               !.pc = "failed"])
    /\ UNCHANGED << parser, frames, request, lookup, md >>

InitLlm == InitFrames({})

NextLlm ==
    \/ \E method \in LlmMethods : LlmCall(method)
    \/ \E text \in Answers : LlmReplies(text)
    \/ LlmRaises
    \/ ExtractJson
    \/ DecodeJson

\* one call of an analysing method of the LLM service
SpecLlm == InitLlm /\ [][NextLlm]_vars

(***************************************************************************)
(* Properties.  They are stated on the document and on what parse_spec     *)
(* returned; the names of the seven methods and their upper-case forms are *)
(* written out here rather than taken from the definitions above.          *)
(***************************************************************************)
Returned == pc = "done" /\ result # None

Failed == pc = "failed"

\* the document of the invocation, its path table, the returned endpoints
Document == spec[1]

DocPaths == Get(Document.paths, << >>)

Endpoints == result[1].endpoints

SevenKeys ==
    { <<"g", "e", "t">>, <<"p", "o", "s", "t">>, <<"p", "u", "t">>,
      <<"p", "a", "t", "c", "h">>, <<"d", "e", "l", "e", "t", "e">>,
      <<"h", "e", "a", "d">>, <<"o", "p", "t", "i", "o", "n", "s">> }

UpperName(key) ==
    CASE key = <<"g", "e", "t">>                -> <<"G", "E", "T">>
      [] key = <<"p", "o", "s", "t">>           -> <<"P", "O", "S", "T">>
      [] key = <<"p", "u", "t">>                -> <<"P", "U", "T">>
      [] key = <<"p", "a", "t", "c", "h">>      -> <<"P", "A", "T", "C", "H">>
      [] key = <<"d", "e", "l", "e", "t", "e">> -> <<"D", "E", "L", "E", "T", "E">>
      [] key = <<"h", "e", "a", "d">>           -> <<"H", "E", "A", "D">>
      [] key = <<"o", "p", "t", "i", "o", "n", "s">> -> <<"O", "P", "T", "I", "O", "N", "S">>

\* the keys of the path item at position p that are one of the seven method names
DeclaredMethods(p) == { key \in SevenKeys : \E i \in DOMAIN DocPaths[p].v : DocPaths[p].v[i].k = key }

\* the operation object declared under key in the path item at position p
OperationAt(p, key) ==
    LET item == DocPaths[p].v
    IN  item[CHOOSE i \in DOMAIN item : item[i].k = key].v.op

\* the list under the key 'parameters' of the path item at position p (empty if absent)
PathLevelParams(p) ==
    LET item == DocPaths[p].v
        at   == { i \in DOMAIN item : item[i].k = <<"p", "a", "r", "a", "m", "e", "t", "e", "r", "s">> }
    IN  IF at = {} THEN << >> ELSE item[CHOOSE i \in at : TRUE].v.params

\* the positions in the returned list of the endpoints for (path at p, key)
EndpointsAt(p, key) ==
    { i \in DOMAIN Endpoints :
        Endpoints[i].path = DocPaths[p].k /\ Endpoints[i].method = UpperName(key) }

\* the dialect string is a str whose first character is 3
FirstChar3 == version[1].t = "str" /\ version[1].v # << >> /\ version[1].v[1] = "3"

\* the document is a Swagger 2.0 document: swagger: "2.0" and no openapi key
IsSwagger20 ==
    /\ Document.openapi = None
    /\ Document.swagger = Some([t |-> "str", v |-> <<"2", ".", "0">>])

NoDialectKey == Document.openapi = None /\ Document.swagger = None

\* C1: a document with neither the key openapi nor the key swagger makes parse_spec
\* fail with InvalidSpecification, and nothing of a model is produced.
C1_InvalidSpecification ==
    (spec # None /\ NoDialectKey) =>
        /\ Failed
        /\ error = "InvalidSpecification"
        /\ result = None
        /\ info = None /\ servers = None /\ auth = None
        /\ endpoints = None /\ schemas = None /\ examples = None

C1_Witness == Failed /\ NoDialectKey /\ Document.paths # None /\ Document.info # None

\* C2: for a 3.x document, the parameters of the endpoint of (path, method) are the
\* normalised path-level parameters followed by the normalised operation-level
\* parameters, each in declaration order, none merged.
C2_ParametersConcatenated ==
    (Returned /\ FirstChar3) =>
        \A p \in DOMAIN DocPaths : \A key \in DeclaredMethods(p) :
            /\ EndpointsAt(p, key) # {}
            /\ \A e \in EndpointsAt(p, key) :
                LET path_level == PathLevelParams(p)
                    op_level   == Get(OperationAt(p, key).parameters, << >>)
                    got        == Endpoints[e].parameters
                IN  /\ Len(got) = Len(path_level) + Len(op_level)
                    /\ \A i \in 1..Len(path_level) : got[i] = Param3(path_level[i])
                    /\ \A i \in 1..Len(op_level) :
                          got[Len(path_level) + i] = Param3(op_level[i])

\* a 3.x endpoint with two path-level and two operation-level parameters, the first of
\* each named alike
C2_Witness ==
    /\ Returned /\ FirstChar3
    /\ \E p \in DOMAIN DocPaths : \E key \in DeclaredMethods(p) : \E e \in EndpointsAt(p, key) :
          /\ Len(PathLevelParams(p)) = 2
          /\ Len(Get(OperationAt(p, key).parameters, << >>)) = 2
          /\ Len(Endpoints[e].parameters) = 4
          /\ Endpoints[e].parameters[1].name = Endpoints[e].parameters[3].name
          /\ Endpoints[e].parameters[1] # Endpoints[e].parameters[3]

\* C3: the endpoints are exactly one per (path, key) with key one of the seven
\* lower-case method names, its method that key in upper case; no other key of a path
\* item gives an endpoint.
C3_OneEndpointPerMethod ==
    Returned =>
        /\ \A p \in DOMAIN DocPaths : \A key \in DeclaredMethods(p) :
              Cardinality(EndpointsAt(p, key)) = 1
        /\ \A e \in DOMAIN Endpoints :
              \E p \in DOMAIN DocPaths : \E key \in DeclaredMethods(p) : e \in EndpointsAt(p, key)

\* a path item with all seven methods and the keys GET, trace and parameters gives
\* seven endpoints with seven methods
C3_Witness ==
    /\ Returned
    /\ Len(DocPaths) = 1
    /\ Len(DocPaths[1].v) = 10
    /\ DeclaredMethods(1) = SevenKeys
    /\ Len(Endpoints) = 7
    /\ Cardinality({ Endpoints[e].method : e \in DOMAIN Endpoints }) = 7

\* the content mapping of the requestBody of an operation (empty if either is absent)
BodyContent(operation) ==
    IF operation.requestBody = None THEN << >>
    ELSE Get(operation.requestBody[1].content, << >>)

\* C4: in the model returned for a Swagger 2.0 document every endpoint has request_body
\* unset, also when the operation object holds a requestBody field.
C4_Swagger20NoRequestBody ==
    (Returned /\ IsSwagger20) =>
        \A e \in DOMAIN Endpoints : Endpoints[e].request_body = None

\* C5: for a 3.x operation the request body descriptor is a single descriptor taken from
\* the content type that is first in the content mapping; it is unset when the content
\* mapping is empty or the requestBody is absent.
C5_FirstContentType ==
    (Returned /\ FirstChar3) =>
        \A p \in DOMAIN DocPaths : \A key \in DeclaredMethods(p) : \A e \in EndpointsAt(p, key) :
            LET content == BodyContent(OperationAt(p, key))
                got     == Endpoints[e].request_body
            IN  IF content = << >> THEN got = None
                ELSE LET first  == content[1]
                         schema == IF first.v.schema = None THEN EmptySchema
                                   ELSE first.v.schema[1]
                     IN  /\ Len(got) = 1
                         /\ DOMAIN got[1] =
                               { "content_type", "required", "description", "schema", "example" }
                         /\ got[1].content_type = first.k
                         /\ got[1].schema = schema
                         /\ got[1].example \in { first.v.example, schema.example }

\* a 3.x operation with two content types that differ in schema and example
C5_Witness ==
    /\ Returned /\ FirstChar3
    /\ \E p \in DOMAIN DocPaths : \E key \in DeclaredMethods(p) : \E e \in EndpointsAt(p, key) :
          LET content == BodyContent(OperationAt(p, key))
          IN  /\ Len(content) >= 2
              /\ content[1].v.schema # content[2].v.schema
              /\ content[2].v.example # None
              /\ content[1].v.example # None
              /\ content[1].v.example # content[2].v.example
              /\ Endpoints[e].request_body # None
              /\ Endpoints[e].request_body[1].example = content[1].v.example

\* the dialect marker is present with a value that is neither 2.x nor 3.x:
\* swagger: "1.2", or openapi: "4.0"
UnrecognisedDialect ==
    \/ /\ Document.openapi = None
       /\ Document.swagger = Some([t |-> "str", v |-> <<"1", ".", "2">>])
    \/ Document.openapi = Some([t |-> "str", v |-> <<"4", ".", "0">>])

\* C6: a document whose dialect marker has an unrecognised value makes parse_spec fail
\* with UnsupportedDialect, and no model is returned.
C6_UnsupportedDialect ==
    (pc \in { "done", "failed" } /\ UnrecognisedDialect) =>
        (Failed /\ error = "UnsupportedDialect" /\ result = None)

\* the extraction steps took the 3.x rule if three, and the 2.0 rule otherwise
BranchesAgree(three) ==
    /\ servers # None =>
          servers[1] = IF three THEN Servers3(Document) ELSE Servers2(Document)
    /\ auth # None =>
          auth[1] = IF three THEN Auth3(Document) ELSE Auth2(Document)
    /\ schemas # None =>
          schemas[1] = IF three
                       THEN Get(Get(Document.components, EmptyComponents).schemas, << >>)
                       ELSE Get(Document.definitions, << >>)
    /\ Returned =>
          \A p \in DOMAIN DocPaths : \A key \in DeclaredMethods(p) : \A e \in EndpointsAt(p, key) :
              LET declared  == PathLevelParams(p) \o Get(OperationAt(p, key).parameters, << >>)
                  responses == Get(OperationAt(p, key).responses, << >>)
              IN  /\ Endpoints[e].parameters =
                        [i \in 1..Len(declared) |->
                            IF three THEN Param3(declared[i]) ELSE Param2(declared[i])]
                  /\ Endpoints[e].responses =
                        [i \in 1..Len(responses) |->
                            [k |-> responses[i].k,
                             v |-> IF three THEN Response3(responses[i].v)
                                   ELSE Response2(responses[i].v)]]

C7_SameBranch ==
    (spec # None /\ version # None /\ pc # "failed") =>
        BranchesAgree(version[1].v # << >> /\ version[1].v[1] = "3")

\* C7: within one parse_spec call the dialect is set once, before any extraction, and
\* every extraction step takes the 3.x rule exactly when the first character of the
\* dialect string is 3, the 2.0 rule otherwise.
C7_DialectFixedOnce ==
    /\ [] C7_SameBranch
    /\ [][version' # version => (pc = "idle" /\ pc' = "info" /\ servers' = None)]_vars

\* a returned model for openapi: "30.0" on a document where the two rules differ in
\* every step
C7_Witness ==
    /\ Returned
    /\ version[1].v = <<"3", "0", ".", "0">>
    /\ Servers3(Document) # Servers2(Document)
    /\ Auth3(Document) # Auth2(Document)
    /\ result[1].authentication = Auth3(Document)
    /\ result[1].schemas # Get(Document.definitions, << >>)
    /\ \E e \in DOMAIN Endpoints :
          /\ Len(Endpoints[e].parameters) = 2
          /\ Len(Endpoints[e].responses) = 1
          /\ Endpoints[e].responses[1].v # Response2(OperationAt(1, post).responses[1][1].v)

NineFields ==
    { "version", "info", "servers", "authentication", "endpoints", "schemas", "examples",
      "endpoint_count", "tags" }

\* C8: parse_spec either returns a model with all nine fields or raises
\* InvalidSpecification or UnsupportedDialect; no other exception escapes.
C8_NeverPartiallyFails ==
    /\ pc = "done" => (result # None /\ DOMAIN result[1] = NineFields)
    /\ Failed => (error \in { "InvalidSpecification", "UnsupportedDialect" } /\ result = None)

\* C9: for a Swagger 2.0 document the servers are one per element of schemes (https alone
\* when schemes is absent), in order, each url scheme + "://" + host + basePath with an
\* absent host or basePath the empty string; the extraction does not fail.
C9_Swagger20Servers ==
    (spec # None /\ IsSwagger20) =>
        LET schemes_ == IF Document.schemes = None THEN << <<"https">> >> ELSE Document.schemes[1]
            host_    == IF Document.host = None THEN << >> ELSE Document.host[1]
            base_    == IF Document.basePath = None THEN << >> ELSE Document.basePath[1]
        IN  /\ pc \notin { "idle", "info", "servers" } => servers # None
            /\ servers # None =>
                  /\ Len(servers[1]) = Len(schemes_)
                  /\ \A i \in 1..Len(schemes_) :
                        servers[1][i].url = schemes_[i] \o <<"://">> \o host_ \o base_
            /\ Returned => result[1].servers = servers[1]

\* a Swagger 2.0 document without host, basePath and schemes gives the url "https://"
C9_Witness ==
    /\ Returned /\ IsSwagger20
    /\ Document.host = None /\ Document.basePath = None /\ Document.schemes = None
    /\ Len(result[1].servers) = 1
    /\ result[1].servers[1].url = <<"https", "://">>

\* the value under examples.application/json of a response (None if absent)
JsonExample(response) ==
    LET given == IF response.examples = None THEN << >> ELSE response.examples[1]
        at    == { i \in DOMAIN given : given[i].k = "application/json" }
    IN  IF at = {} THEN None ELSE << given[CHOOSE i \in at : TRUE].v >>

\* {swagger: "2.0", paths: {/ping: {get: {responses: {200: {description: ok}}}}}}
PingDocument ==
    [EmptyDoc EXCEPT
        !.swagger = Some([t |-> "str", v |-> <<"2", ".", "0">>]),
        !.paths = Some(<< [k |-> <<"/ping">>,
                           v |-> << [k |-> <<"g", "e", "t">>,
                                     v |-> [params |-> << >>,
                                            op |-> [EmptyOperation EXCEPT !.responses = Some(<<
                                                [k |-> <<"200">>,
                                                 v |-> [EmptyResponse EXCEPT
                                                          !.description = Some(<<"ok">>)]] >>)]]] >>] >>)]

\* C10: for a Swagger 2.0 operation, responses maps each status code of the operation, in
\* declaration order, to {description (default ""), schema (default {}), example (the
\* value of examples.application/json, default None)}; the /ping document gives one GET
\* endpoint with responses {200: {description: ok, schema: {}, example: None}}.
C10_Swagger20Responses ==
    (Returned /\ IsSwagger20) =>
        /\ \A p \in DOMAIN DocPaths : \A key \in DeclaredMethods(p) : \A e \in EndpointsAt(p, key) :
              LET declared == Get(OperationAt(p, key).responses, << >>)
                  got      == Endpoints[e].responses
              IN  /\ Len(got) = Len(declared)
                  /\ \A i \in 1..Len(declared) :
                        /\ got[i].k = declared[i].k
                        /\ got[i].v =
                              [description |-> IF declared[i].v.description = None THEN << >>
                                               ELSE declared[i].v.description[1],
                               schema      |-> IF declared[i].v.schema = None
                                               THEN [type |-> << >>, format |-> << >>,
                                                     default |-> << >>, example |-> << >>]
                                               ELSE declared[i].v.schema[1],
                               example     |-> JsonExample(declared[i].v)]
        /\ Document = PingDocument =>
              /\ result[1].endpoint_count = 1
              /\ Len(Endpoints) = 1
              /\ Endpoints[1].path = <<"/ping">>
              /\ Endpoints[1].method = <<"G", "E", "T">>
              /\ Endpoints[1].responses =
                    << [k |-> <<"200">>,
                        v |-> [description |-> <<"ok">>,
                               schema      |-> [type |-> << >>, format |-> << >>,
                                                default |-> << >>, example |-> << >>],
                               example     |-> << >>]] >>

\* the /ping document was parsed
C10_Witness ==
    /\ Returned
    /\ Document = PingDocument
    /\ Len(Endpoints) = 1
    /\ Endpoints[1].responses[1].v.description = <<"ok">>

\* parse_spec has ended, by a return or by an exception
Finished == pc = "done" \/ pc = "failed"

\* the document declares at least one operation under one of the seven method names
DeclaresOperation == \E p \in DOMAIN DocPaths : DeclaredMethods(p) # {}

\* the pieces occur in the snippet, next to each other and in this order
Contains(snippet, pieces) ==
    \E i \in 1..(Len(snippet) + 1 - Len(pieces)) :
        SubSeq(snippet, i, i + Len(pieces) - 1) = pieces

\* C11: for every document with a dialect key whose paths mapping is empty or absent,
\* parse_spec returns without error a model with endpoint_count 0, no endpoints and no
\* examples, whatever the value of servers.
C11_EmptyPaths ==
    (spec # None /\ ~NoDialectKey /\ DocPaths = << >> /\ Finished) =>
        /\ Returned
        /\ error = ""
        /\ result[1].endpoint_count = 0
        /\ result[1].endpoints = << >>
        /\ result[1].examples = << >>

\* the value under the key servers of the document (empty if the key is absent)
DeclaredServers == IF Document.servers = << >> THEN << >> ELSE Document.servers[1]

\* the URL the snippets of the document are to carry, before the path
ExpectedServer ==
    IF DeclaredServers = << >> \/ DeclaredServers[1].url = << >>
    THEN <<"https://api.example.com">>
    ELSE DeclaredServers[1].url[1]

\* C14: for every document with at least one endpoint (and a str dialect value),
\* parse_spec returns, and in each cURL, Python and JavaScript snippet the request URL is
\* the first declared server URL followed by the path of the endpoint, or
\* https://api.example.com followed by the path when servers is absent or an empty list.
C14_SnippetUrl ==
    (spec # None /\ ~NoDialectKey /\ version # << >> /\ version[1].t = "str"
        /\ DeclaresOperation /\ Finished) =>
        /\ Returned
        /\ \A i \in DOMAIN result[1].examples :
              LET url == <<"'">> \o ExpectedServer \o Endpoints[i].path \o <<"'">>
                  in_ == result[1].examples[i].languages
              IN  /\ Contains(in_.curl, <<" '">> \o Tail(url))
                  /\ Contains(in_.python, <<"url = '">> \o Tail(url))
                  /\ Contains(in_.javascript, <<"const url = '">> \o ExpectedServer
                                               \o Endpoints[i].path \o <<"';">>)

\* C15: in every returned model endpoint_count is the length of endpoints, examples has
\* min(5, endpoint_count) entries, the i-th example is labelled "METHOD path" of the i-th
\* endpoint and carries exactly the languages curl, python and javascript.
C15_ExamplesOfFirstFive ==
    Returned =>
        LET model == result[1]
            n     == Len(model.endpoints)
        IN  /\ model.endpoint_count = n
            /\ Len(model.examples) = (IF n < 5 THEN n ELSE 5)
            /\ \A i \in DOMAIN model.examples :
                  /\ model.examples[i].endpoint =
                        model.endpoints[i].method \o <<" ">> \o model.endpoints[i].path
                  /\ DOMAIN model.examples[i].languages = { "curl", "python", "javascript" }

\* a model with more than five endpoints was returned
C15_Witness ==
    /\ Returned
    /\ result[1].endpoint_count > 5
    /\ Len(result[1].examples) = 5
    /\ result[1].examples[5].endpoint = Endpoints[5].method \o <<" ">> \o Endpoints[5].path

\* the three snippets of the i-th example
Snippets(i) ==
    LET in_ == result[1].examples[i].languages
    IN  { in_.curl, in_.python, in_.javascript }

\* C16: for every endpoint that gets examples, each of its three snippets contains the
\* header Authorization: Bearer YOUR_API_KEY when the security list of the endpoint is
\* not empty, and none of the three contains it when the list is empty.
C16_AuthHeaderIffSecurity ==
    Returned =>
        \A i \in DOMAIN result[1].examples : \A snippet \in Snippets(i) :
            Contains(snippet, <<"Authorization: Bearer YOUR_API_KEY">>)
                <=> Endpoints[i].security # << >>

\* C17: for every endpoint that gets examples, each of its three snippets contains the
\* placeholder JSON body exactly when the method is POST, PUT or PATCH, whether or not
\* the operation declares a request body.
C17_BodyIffWritingMethod ==
    Returned =>
        \A i \in DOMAIN result[1].examples : \A snippet \in Snippets(i) :
            Contains(snippet, <<"{example: data}">>)
                <=> Endpoints[i].method \in { <<"P", "O", "S", "T">>, <<"P", "U", "T">>,
                                              <<"P", "A", "T", "C", "H">> }

\* the example the claim C18 expects of a media-type or parameter object: its own
\* `example` field when it has one, the example of its schema otherwise
PreferExplicit(object) ==
    IF object.example # << >> THEN object.example
    ELSE IF object.schema = << >> THEN << >> ELSE object.schema[1].example

\* the parameters declared for (path at p, key): path level first, then operation level
DeclaredParams(p, key) ==
    PathLevelParams(p)
        \o (IF OperationAt(p, key).parameters = << >> THEN << >>
            ELSE OperationAt(p, key).parameters[1])

\* C18: in a 3.x document the example of a request-body descriptor, of a response
\* descriptor and of a parameter is the explicit `example` field of the media-type (or
\* parameter) object whenever that field is present, whatever its value; the example
\* of the schema is used only when the field is absent.
C18_ExplicitExampleFirst ==
    (Returned /\ FirstChar3) =>
        \A p \in DOMAIN DocPaths : \A key \in DeclaredMethods(p) : \A e \in EndpointsAt(p, key) :
            LET operation == OperationAt(p, key)
                declared  == DeclaredParams(p, key)
                responses == IF operation.responses = << >> THEN << >>
                             ELSE operation.responses[1]
            IN  /\ Endpoints[e].request_body # << >> =>
                      Endpoints[e].request_body[1].example =
                          PreferExplicit(operation.requestBody[1].content[1][1].v)
                /\ \A i \in DOMAIN responses :
                      LET content == IF responses[i].v.content = << >> THEN << >>
                                     ELSE responses[i].v.content[1]
                      IN  \A c \in DOMAIN content :
                              content[c].k = "application/json" =>
                                  Endpoints[e].responses[i].v.example =
                                      PreferExplicit(content[c].v)
                /\ \A j \in DOMAIN declared :
                      Endpoints[e].parameters[j].example = PreferExplicit(declared[j])

\* C19: every entry of the parameters of every endpoint has the fields name, in
\* (location), description, required, type, format, default and example, in a 3.x and in
\* a 2.0 document alike; required defaults to false and description to "".
C19_SameParameterShape ==
    Returned =>
        \A p \in DOMAIN DocPaths : \A key \in DeclaredMethods(p) : \A e \in EndpointsAt(p, key) :
            LET declared == DeclaredParams(p, key)
            IN  \A j \in DOMAIN Endpoints[e].parameters :
                    /\ DOMAIN Endpoints[e].parameters[j] =
                          { "name", "in", "description", "required", "type", "format",
                            "default", "example" }
                    /\ declared[j].required = << >> =>
                          Endpoints[e].parameters[j].required = FALSE
                    /\ declared[j].description = << >> =>
                          Endpoints[e].parameters[j].description = << >>

\* what invocation i ended with
Outcome(i) == [result |-> frames[i].result, error |-> frames[i].error]

\* two ended invocations on the same document ended alike
C12_SameOutcome ==
    \A i, j \in DOMAIN frames :
        (Ended(i) /\ Ended(j) /\ frames[i].arg = frames[j].arg) => Outcome(i) = Outcome(j)

\* C12: two successive parse_spec calls on the same parser with the same document return
\* structurally identical models (or fail alike), and no step of either call changes the
\* document that was passed.
C12_Idempotent ==
    /\ [] C12_SameOutcome
    /\ [][\A i \in DOMAIN frames : frames[i].arg # << >> => frames'[i].arg = frames[i].arg]_vars

\* both calls returned a model with endpoints for the same document
C12_Witness ==
    /\ frames # << >>
    /\ frames[1].pc = "done" /\ frames[2].pc = "done"
    /\ frames[1].arg = frames[2].arg
    /\ frames[2].result # << >>
    /\ frames[2].result[1].endpoint_count > 0
    /\ frames[1].result = frames[2].result

LinearStages ==
    request.stages \in { << >>, <<"fetch">>, <<"fetch", "normalise">>,
                         <<"fetch", "normalise", "llm">>, <<"normalise">>,
                         <<"normalise", "llm">> }

\* the LLM was called
LlmCalled == \E k \in DOMAIN request.stages : request.stages[k] = "llm"

\* the state part of C20
C20_Pipeline ==
    request # << >> =>
        /\ LinearStages
        /\ LlmCalled => (pc = "done" /\ result # << >> /\ request.api_analysis = result)
        /\ pc = "failed" => ~LlmCalled
        /\ request.response # << >> =>
              IF request.response[1].status = 200
              THEN /\ LlmCalled /\ pc = "done"
                   /\ DOMAIN request.response[1].body[1] = DOMAIN result[1] \cup { "ai_insights" }
                   /\ \A field \in DOMAIN result[1] :
                         request.response[1].body[1][field] = result[1][field]
              ELSE request.response[1].body = << >>

\* C20: a request runs at most one fetch, then at most one normalisation, then at most
\* one LLM call, in that order; the LLM is called only after parse_spec returned a model;
\* once the request is answered (with an error after a failed stage, or with success) no
\* stage runs any more and the answer stays; a successful answer is the fields of the
\* normaliser's model, unchanged, plus ai_insights.
C20_LinearPipeline ==
    /\ [] C20_Pipeline
    /\ [][request # << >> =>
            /\ request.response # << >> => request' = request
            /\ Len(request'.stages) >= Len(request.stages)
            /\ SubSeq(request'.stages, 1, Len(request.stages)) = request.stages]_vars

\* a request with a URL was answered with the model of a document with endpoints
C20_Witness ==
    /\ request # << >>
    /\ request.url # << >>
    /\ request.stages = <<"fetch", "normalise", "llm">>
    /\ request.response # << >>
    /\ request.response[1].status = 200
    /\ request.response[1].body[1].endpoint_count > 0
    /\ request.response[1].body[1].ai_insights = <<"summary two">>

\* the request supplied neither url nor spec
NeitherArgument ==
    /\ request # << >>
    /\ request.pc # "waiting"
    /\ request.url = << >>
    /\ request.spec = << >>

\* C21: a request that supplies neither url nor spec is answered with status 400 and
\* detail "Must provide either 'url' or 'spec'", and neither the normaliser nor the LLM
\* runs for it.
C21_NeitherArgumentIs400 ==
    NeitherArgument =>
        /\ request.stages = << >>
        /\ pc = "idle"
        /\ request.response # << >> =>
              /\ request.response[1].status = 400
              /\ request.response[1].detail = <<"Must provide either 'url' or 'spec'">>

\* the place of a method name in the order GET, POST, PUT, PATCH, DELETE, HEAD, OPTIONS
MethodRank(method) ==
    CASE method = <<"G", "E", "T">>                -> 1
      [] method = <<"P", "O", "S", "T">>           -> 2
      [] method = <<"P", "U", "T">>                -> 3
      [] method = <<"P", "A", "T", "C", "H">>      -> 4
      [] method = <<"D", "E", "L", "E", "T", "E">> -> 5
      [] method = <<"H", "E", "A", "D">>           -> 6
      [] method = <<"O", "P", "T", "I", "O", "N", "S">> -> 7
      [] OTHER -> 0

\* the position in the document of the path of the e-th returned endpoint
PathPosition(e) == CHOOSE p \in DOMAIN DocPaths : DocPaths[p].k = Endpoints[e].path

\* C29: in the returned endpoints, the endpoints of an earlier-declared path precede those
\* of a later-declared path, and within one path they are in the order GET, POST, PUT,
\* PATCH, DELETE, HEAD, OPTIONS whatever the order of the method keys in the document;
\* the examples are those of the first (at most five) endpoints in this order.
C29_EndpointOrder ==
    Returned =>
        /\ \A a, b \in DOMAIN Endpoints :
              a < b =>
                  \/ PathPosition(a) < PathPosition(b)
                  \/ /\ PathPosition(a) = PathPosition(b)
                     /\ 0 < MethodRank(Endpoints[a].method)
                     /\ MethodRank(Endpoints[a].method) < MethodRank(Endpoints[b].method)
        /\ \A i \in DOMAIN result[1].examples :
              /\ i <= 5
              /\ result[1].examples[i].endpoint =
                    Endpoints[i].method \o <<" ">> \o Endpoints[i].path

\* two paths whose method keys are declared from options down to get gave more than
\* five endpoints, the first of them the GET of the first path
C29_Witness ==
    /\ Returned
    /\ Len(DocPaths) = 2
    /\ DocPaths[1].v[1].k = <<"o", "p", "t", "i", "o", "n", "s">>
    /\ Len(Endpoints) > 5
    /\ Endpoints[1].method = <<"G", "E", "T">>
    /\ Endpoints[1].path = DocPaths[1].k
    /\ result[1].examples[5].endpoint = <<"D", "E", "L", "E", "T", "E">> \o <<" ">> \o DocPaths[1].k

\* C26: whatever parse_spec calls were made before on the same parser, a call of
\* parse_spec(D) that follows them ends as parse_spec(D) on a fresh parser ends: with the
\* same model or the same error.
C26_HistoryIndependent ==
    \A i \in DOMAIN frames :
        (i > 1 /\ Ended(i) /\ Ended(i - 1)) =>
            /\ frames[i].result = SoloOutcome(frames[i].arg[1]).result
            /\ frames[i].error = SoloOutcome(frames[i].arg[1]).error

\* a 3.x document was parsed to a model right after a Swagger 2.0 document was
C26_Witness ==
    /\ frames # << >>
    /\ frames[1].pc = "done" /\ frames[2].pc = "done"
    /\ frames[1].arg[1].swagger # << >>
    /\ frames[2].arg[1].openapi # << >>
    /\ frames[2].result[1].authentication # frames[1].result[1].authentication
    /\ Len(frames[2].result[1].authentication) = 2

\* the stored document and dialect after the calls up to the i-th, all of them successful
\* (both unset when i = 0)
StoredAfter(i) ==
    IF i = 0 THEN [spec |-> None, version |-> None]
    ELSE [spec    |-> frames[i].arg,
          version |-> Some(DetectVersion(frames[i].arg[1]))]

\* the latest parse_spec call has failed for want of a dialect key, and every call before
\* it was successful
LatestCallRejected ==
    /\ CallsMade >= 1
    /\ frames[CallsMade].pc = "failed"
    /\ frames[CallsMade].error = "InvalidSpecification"
    /\ \A j \in 1..(CallsMade - 1) : frames[j].pc = "done"

\* C27: a parse_spec call that fails because the document has neither dialect key leaves
\* the stored spec and version as they were after the last successful parse (unset if
\* there was none), and get_endpoint_by_path answers as it did before the failed call
C27_RejectedCallKeepsState ==
    LatestCallRejected =>
        /\ spec = StoredAfter(CallsMade - 1).spec
        /\ version = StoredAfter(CallsMade - 1).version
        /\ (lookup # None /\ lookup[1].after = CallsMade) =>
               lookup[1].answer = get_endpoint_by_path(StoredAfter(CallsMade - 1).spec,
                                                       lookup[1].path, lookup[1].method)

\* the Endpoint of the model returned by the i-th call with this path and method, if any
ListedEndpoint(i, path, method) ==
    \E n \in DOMAIN frames[i].result[1].endpoints :
        /\ frames[i].result[1].endpoints[n].path = path
        /\ frames[i].result[1].endpoints[n].method = method

\* C28: get_endpoint_by_path returns None before any parse_spec call; after a successful
\* parse_spec(D) it returns a result, with the method uppercased, exactly when the model
\* returned for D has an Endpoint with that path and that uppercased method
C28_LookupAgreesWithEndpoints ==
    lookup # None =>
        /\ lookup[1].after = 0 => lookup[1].answer = None
        /\ (lookup[1].after >= 1 /\ frames[lookup[1].after].pc = "done") =>
               /\ lookup[1].answer # None <=>
                      ListedEndpoint(lookup[1].after, lookup[1].path, Upper(lookup[1].method))
               /\ lookup[1].answer # None =>
                      /\ lookup[1].answer[1].path = lookup[1].path
                      /\ lookup[1].answer[1].method = Upper(lookup[1].method)

\* parse_markdown has returned
Parsed == md # None /\ md[1].pc = "done"

\* the lines of the text given to parse_markdown
InputLines == Split(md[1].content)

\* the positions of the heading lines (1 to 6 '#', whitespace, a non-empty title)
HeadingLines == { i \in DOMAIN InputLines : HeadingMatch(InputLines[i]) # None }

\* the position of the k-th heading line
HeadingAt(k) == CHOOSE i \in HeadingLines : Cardinality({ j \in HeadingLines : j < i }) = k - 1

\* the lines between the k-th heading and the next heading (or the end of the text)
BodyLines(k) ==
    SubSeq(InputLines, HeadingAt(k) + 1,
           IF k = Cardinality(HeadingLines) THEN Len(InputLines) ELSE HeadingAt(k + 1) - 1)

\* C22: _extract_sections returns one section per heading line, in input order, and the
\* content of every section, the last one and every earlier one alike, is the text
\* joining with newlines the lines between that heading and the next (or the end)
C22_SectionBodiesAreText ==
    Parsed =>
        /\ Len(md[1].result[1].sections) = Cardinality(HeadingLines)
        /\ \A k \in DOMAIN md[1].result[1].sections :
               /\ md[1].result[1].sections[k].level = HeadingMatch(InputLines[HeadingAt(k)])[1].level
               /\ md[1].result[1].sections[k].title = HeadingMatch(InputLines[HeadingAt(k)])[1].title
               /\ md[1].result[1].sections[k].content.t = "str"
               /\ md[1].result[1].sections[k].content.t = "str" =>
                      md[1].result[1].sections[k].content.v = Join(BodyLines(k))

\* the first of the input lines at the given positions, as an optional value
FirstInput(hits) ==
    IF hits = {} THEN None ELSE Some(InputLines[CHOOSE i \in hits : \A j \in hits : i <= j])

\* C24: metadata title is the remainder of the first line starting with "# " (None if
\* there is none), and metadata description is the first line that is non-blank and is
\* not a heading by the splitter's pattern, so that a line such as #tag is eligible
\* (both with the surrounding whitespace removed)
C24_TitleAndDescription ==
    Parsed =>
        LET title       == FirstInput({ n \in DOMAIN InputLines :
                                            /\ Len(InputLines[n]) >= 2
                                            /\ InputLines[n][1] = "#" /\ InputLines[n][2] = " " })
            description == FirstInput({ n \in DOMAIN InputLines :
                                            /\ \E i \in DOMAIN InputLines[n] : ~IsSpace(InputLines[n][i])
                                            /\ HeadingMatch(InputLines[n]) = None })
        IN  /\ md[1].result[1].metadata.title =
                   (IF title = None THEN None
                    ELSE Some(Strip(SubSeq(title[1], 3, Len(title[1])))))
            /\ md[1].result[1].metadata.description =
                   (IF description = None THEN None ELSE Some(Strip(description[1])))

RECURSIVE SpacesToHyphen(_)
\* each run of whitespace replaced by one hyphen
SpacesToHyphen(s) ==
    IF s = << >> THEN << >>
    ELSE IF IsSpace(Head(s))
    THEN IF Len(s) >= 2 /\ IsSpace(s[2]) THEN SpacesToHyphen(Tail(s))
         ELSE << "-" >> \o SpacesToHyphen(Tail(s))
    ELSE << Head(s) >> \o SpacesToHyphen(Tail(s))

\* the title lowercased, every character that is neither a word character nor whitespace
\* stripped (hyphens included), whitespace runs turned into single hyphens
StrippedSlug(title) ==
    SpacesToHyphen(SelectSeq(Lower(title), LAMBDA c : IsWord(c) \/ IsSpace(c)))

\* only lowercase word characters and single hyphens
PlainSlug(slug) ==
    /\ \A i \in DOMAIN slug : slug[i] = "-" \/ (IsWord(slug[i]) /\ LowerChar(slug[i]) = slug[i])
    /\ \A i \in 1..(Len(slug) - 1) : ~(slug[i] = "-" /\ slug[i + 1] = "-")

\* C25: the slug of a heading is its title lowercased, every non-word character other
\* than whitespace stripped (hyphens included: a-b gives ab), each whitespace run
\* replaced by one hyphen; it holds only lowercase word characters and single hyphens,
\* and slugifying it again returns it unchanged
C25_SlugStripsHyphens ==
    Parsed =>
        \A k \in DOMAIN md[1].result[1].headings :
            /\ md[1].result[1].headings[k].id = StrippedSlug(md[1].result[1].headings[k].title)
            /\ PlainSlug(md[1].result[1].headings[k].id)
            /\ _slugify(md[1].result[1].headings[k].id) = md[1].result[1].headings[k].id

\* C30: parse_markdown's sections and headings have the same length and agree position
\* by position on level (between 1 and 6) and title; the lines before the first heading
\* belong to no section, each section holding the lines after its own heading only; a
\* text with no heading yields empty sections and headings
C30_SectionsMatchHeadings ==
    Parsed =>
        /\ Len(md[1].result[1].sections) = Len(md[1].result[1].headings)
        /\ Len(md[1].result[1].sections) = Cardinality(HeadingLines)
        /\ \A k \in DOMAIN md[1].result[1].sections :
               /\ md[1].result[1].sections[k].level = md[1].result[1].headings[k].level
               /\ md[1].result[1].sections[k].title = md[1].result[1].headings[k].title
               /\ md[1].result[1].sections[k].level \in 1..6
               /\ md[1].result[1].sections[k].level = HashRun(InputLines[HeadingAt(k)], 1)
               /\ IF md[1].result[1].sections[k].content.t = "list"
                  THEN md[1].result[1].sections[k].content.v = BodyLines(k)
                  ELSE md[1].result[1].sections[k].content.v = Join(BodyLines(k))
        /\ HeadingLines = {} =>
               md[1].result[1].sections = << >> /\ md[1].result[1].headings = << >>

\* a text was parsed whose first line is no heading although it starts with '#', and
\* whose two other lines are headings
C30_Witness ==
    /\ Parsed
    /\ Len(InputLines) = 3
    /\ InputLines[1] # << >> /\ InputLines[1][1] = "#"
    /\ HeadingLines = {2, 3}
    /\ Len(md[1].result[1].sections) = 2
    /\ Len(md[1].result[1].headings) = 2

\* the content of the first fence pair of a text that has a fence: from the earliest
\* opening fence, plain or tagged json, up to its closing fence (or the end of the text)
FirstFencePair(text) ==
    LET open   == FenceFrom(text, 1)
        tagged == StartsWith(SubSeq(text, open + 3, Len(text)), << "j", "s", "o", "n" >>)
        start  == IF tagged THEN open + 7 ELSE open + 3
        close  == FenceFrom(text, start)
    IN  SubSeq(text, start, IF close = 0 THEN Len(text) ELSE close - 1)

\* C23: the content decoded is that of the first fence pair of the answer if it has a
\* fence, and the whole answer if it has none; if that content is not parseable JSON the
\* call fails with the one analysis-failed error instead of returning a value
C23_FirstFenceDecoded ==
    (reply # None /\ reply[1].content_text # None /\ reply[1].pc \in {"done", "failed"}) =>
        LET text     == reply[1].content_text[1]
            selected == IF FenceFrom(text, 1) # 0 THEN FirstFencePair(text) ELSE text
        IN  /\ reply[1].json_text = Some(selected)
            /\ IF JsonLoads(selected) # None
               THEN /\ reply[1].pc = "done"
                    /\ reply[1].result = JsonLoads(selected)
               ELSE /\ reply[1].pc = "failed"
                    /\ reply[1].result = None
                    /\ reply[1].error[1] = FailureMessage(reply[1].method)
====
